---- MODULE Spec2Model ----
(***************************************************************************)
(* Coordination engine of antigravity-coordinator: the file-lock conflict  *)
(* manager (engine/conflict.py), the agent registry (engine/registry.py),  *)
(* the executor (engine/executor.py) and the phased orchestrator           *)
(* (engine/orchestrator.py).                                               *)
(***************************************************************************)
EXTENDS Integers, Sequences, FiniteSets, TLC

\* ------------------------------------------------------------------ bounds
MaxAgents == 2
MaxFiles == 2
MaxTicks == 1

\* ------------------------------------------------------- program constants
LOCK_TIMEOUT == 600
STALE_CLEANUP == 600
MAX_PROMPT_LENGTH == 50000
WAIT_TIMEOUT == 600

\* The clock runs from 0 to a little past the stale-lock threshold.
MaxTime == LOCK_TIMEOUT + MaxTicks

AgentIds == 1..MaxAgents
NoAgent == 0
\* An agent id that register() never hands out.
UnknownId == 0
AllIds == AgentIds \cup {UnknownId}
LockTypes == {"read", "write"}
RawPaths == {"f", "./f", "g"}
FileLists == UNION {[1..n -> RawPaths] : n \in 0..MaxFiles}

TaskIds == {"t1", "t2"}
Terminal == {"completed", "failed", "timeout", "cancelled"}

VARIABLES
    locks,      \* file_locks table: set of rows [path, agent_id, lock_type, acquired_at]
    now,        \* wall clock, seconds
    lastOp,     \* the last lock-manager or cancel_task call and what it returned
    reg,        \* agent_registry table: agent id -> row (state "absent": no row)
    hist,       \* agents table (permanent outcome history): agent id -> row
    nextId,     \* the next agent id register() hands out
    call,       \* per agent: where the spawn call that registered it stands
    proc,       \* per agent: its subprocess
    active,     \* AgentExecutor._active_processes
    wf,         \* the wait_for_agents call in progress, and its results
    orch,       \* the coordinate() call of the orchestrator, in its phases
    ledger,     \* trust_entries row of one (agent_id, task_type) key, and the calls on it
    opt,        \* the optimizer: baselines file, baselines table, calls in progress
    fn,         \* the last call of a pure function: its input and what it returned
    acq,        \* per agent: the acquire call it is in the middle of
    trans       \* per thread: the registry transition it is in the middle of

lockVars == <<locks, now, lastOp>>
execVars == <<reg, hist, nextId, call, proc, active, wf, orch>>
sideVars == <<ledger, opt, fn, acq, trans>>
vars == <<locks, now, lastOp, reg, hist, nextId, call, proc, active, wf, orch, ledger, opt, fn,
          acq, trans>>

NoOp == [op |-> "none", agent |-> NoAgent, files |-> <<>>, lock_type |-> "read",
         ok |-> TRUE, failed |-> <<>>, task |-> "none"]

\* ------------------------------------------------------- conflict manager

\* Path(path).resolve(): relative components are resolved away.
normalize_path(path) == IF path = "./f" THEN "f" ELSE path

FileLock(path, agent_id, lock_type, at) ==
    [path |-> path, agent_id |-> agent_id, lock_type |-> lock_type, acquired_at |-> at]

\* DELETE FROM file_locks WHERE acquired_at < cutoff_time
cleanup_expired(L, t) == {l \in L : ~(l.acquired_at < t - LOCK_TIMEOUT)}

\* The row loop of check_conflicts for one path: some row of another agent
\* conflicts (a write request with any row, a read request with a write row).
RowConflictNoSelfSkip(L, path, lock_type, agent_id) ==
    \E row \in L :
        /\ row.path = normalize_path(path)
        /\ (lock_type = "write" \/ row.lock_type = "write")

RowConflictWritersPass(L, path, lock_type, agent_id) ==
    \E row \in L :
        /\ row.path = normalize_path(path)
        /\ ~(agent_id # NoAgent /\ row.agent_id = agent_id)
        /\ row.lock_type = "write"

RowConflict(L, path, lock_type, agent_id) ==
    \E row \in L :
        /\ row.path = normalize_path(path)
        /\ ~(agent_id # NoAgent /\ row.agent_id = agent_id)
        /\ (lock_type = "write" \/ row.lock_type = "write")

\* check_conflicts on the table as the stale sweep left it: the requested
\* paths that conflict, in request order.
check_conflicts(L, paths, lock_type, agent_id) ==
    SelectSeq(paths, LAMBDA p : RowConflict(L, p, lock_type, agent_id))

\* DELETE ... WHERE path = ? AND agent_id = ?
release(L, path, agent_id) ==
    {l \in L : ~(l.path = normalize_path(path) /\ l.agent_id = agent_id)}

release_agent(L, agent_id) == {l \in L : l.agent_id # agent_id}

acquire(L, path, agent_id, lock_type, t) ==
    LET swept == cleanup_expired(L, t)
    IN  IF check_conflicts(swept, <<path>>, lock_type, agent_id) # <<>>
        THEN [ok |-> FALSE, locks |-> swept]
        ELSE [ok |-> TRUE,
              locks |-> release(swept, path, agent_id)
                        \cup {FileLock(normalize_path(path), agent_id, lock_type, t)}]

\* The acquire loop of acquire_batch: [ok, failed, locks].
RECURSIVE acquire_loop(_, _, _, _, _)
acquire_loop(L, files, agent_id, lock_type, t) ==
    IF files = <<>>
    THEN [ok |-> TRUE, failed |-> <<>>, locks |-> L]
    ELSE LET r == acquire(L, Head(files), agent_id, lock_type, t)
         IN  IF ~r.ok
             THEN [ok |-> FALSE, failed |-> <<Head(files)>>,
                   locks |-> release_agent(r.locks, agent_id)]
             ELSE acquire_loop(r.locks, Tail(files), agent_id, lock_type, t)

AcquireBatchPartial(L, files, agent_id, lock_type, t) ==
    LET swept == cleanup_expired(L, t)
    IN  IF files = <<>> THEN [ok |-> TRUE, failed |-> <<>>, locks |-> swept]
        ELSE LET r == acquire(swept, Head(files), agent_id, lock_type, t)
                 conflicts == check_conflicts(r.locks, Tail(files), lock_type, agent_id)
             IN  IF ~r.ok THEN [ok |-> FALSE, failed |-> <<Head(files)>>, locks |-> r.locks]
                 ELSE IF conflicts # <<>>
                      THEN [ok |-> FALSE, failed |-> conflicts, locks |-> r.locks]
                      ELSE acquire_loop(r.locks, Tail(files), agent_id, lock_type, t)

acquire_batch(L, files, agent_id, lock_type, t) ==
    LET swept == cleanup_expired(L, t)
        conflicts == check_conflicts(swept, files, lock_type, agent_id)
    IN  IF conflicts # <<>>
        THEN [ok |-> FALSE, failed |-> conflicts, locks |-> swept]
        ELSE acquire_loop(swept, files, agent_id, lock_type, t)

\* ------------------------------------------------- lock-manager actions

Acquire(a, p, lt) ==
    LET r == acquire(locks, p, a, lt, now)
    IN  /\ locks' = r.locks
        /\ lastOp' = [op |-> "acquire", agent |-> a, files |-> <<p>>, lock_type |-> lt,
                      ok |-> r.ok, failed |-> IF r.ok THEN <<>> ELSE <<p>>,
                      task |-> "none"]
        /\ UNCHANGED <<now, execVars, sideVars>>

AcquireBatch(a, files, lt) ==
    LET r == acquire_batch(locks, files, a, lt, now)
    IN  /\ locks' = r.locks
        /\ lastOp' = [op |-> "acquire_batch", agent |-> a, files |-> files,
                      lock_type |-> lt, ok |-> r.ok, failed |-> r.failed, task |-> "none"]
        /\ UNCHANGED <<now, execVars, sideVars>>

Release(a, p) ==
    /\ locks' = release(locks, p, a)
    /\ lastOp' = [op |-> "release", agent |-> a, files |-> <<p>>, lock_type |-> "read",
                  ok |-> TRUE, failed |-> <<>>, task |-> "none"]
    /\ UNCHANGED <<now, execVars, sideVars>>

ReleaseAgent(a) ==
    /\ locks' = release_agent(locks, a)
    /\ lastOp' = [op |-> "release_agent", agent |-> a, files |-> <<>>, lock_type |-> "read",
                  ok |-> TRUE, failed |-> <<>>, task |-> "none"]
    /\ UNCHANGED <<now, execVars, sideVars>>

CleanupStale ==
    /\ locks' = cleanup_expired(locks, now)
    /\ lastOp' = [NoOp EXCEPT !.op = "cleanup_stale"]
    /\ UNCHANGED <<now, execVars, sideVars>>

Tick(d) ==
    /\ now + d <= MaxTime
    /\ now' = now + d
    /\ UNCHANGED <<locks, lastOp, execVars, sideVars>>

\* ------------------------------------------------------------- registry

NoRow == [state |-> "absent", task_id |-> "none", error |-> "none",
          progress |-> 0, completed_at |-> -1]
NoOutcome == [status |-> "none"]

\* register: INSERT a pending row under a fresh agent id.
register(R, a, task_id) ==
    [R EXCEPT ![a] = [state |-> "pending", task_id |-> task_id, error |-> "none",
                      progress |-> 0, completed_at |-> -1]]

\* Every transition is UPDATE agent_registry SET ... WHERE agent_id = ?: it
\* changes the row whatever its state, and nothing when there is no row.
HasRow(R, a) == R[a].state # "absent"

start(R, a) == IF HasRow(R, a) THEN [R EXCEPT ![a].state = "running"] ELSE R

\* progress in percent; min(1.0, max(0.0, progress))
clamp(p) == IF p < 0 THEN 0 ELSE IF p > 100 THEN 100 ELSE p

heartbeat(R, a, progress) ==
    IF HasRow(R, a) THEN [R EXCEPT ![a].progress = clamp(progress)] ELSE R

\* _log_outcome: INSERT INTO agents ... ON CONFLICT(agent_id) DO UPDATE SET
\* status, completed_at, output (the whole record, serialised).
log_outcome(H, a, row) ==
    [H EXCEPT ![a] = [status |-> row.state, completed_at |-> row.completed_at,
                      output |-> row]]

\* The tail shared by complete/fail/timeout/cancel: agent = self.get(id);
\* if agent: self._log_outcome(agent).
logged(R, H, a) ==
    [reg |-> R, hist |-> IF HasRow(R, a) THEN log_outcome(H, a, R[a]) ELSE H]

complete(R, H, a, t) ==
    logged(IF HasRow(R, a)
           THEN [R EXCEPT ![a].state = "completed", ![a].completed_at = t,
                          ![a].progress = 100]
           ELSE R, H, a)

fail(R, H, a, error, t) ==
    logged(IF HasRow(R, a)
           THEN [R EXCEPT ![a].state = "failed", ![a].completed_at = t,
                          ![a].error = error]
           ELSE R, H, a)

timeout(R, H, a, t) ==
    logged(IF HasRow(R, a)
           THEN [R EXCEPT ![a].state = "timeout", ![a].completed_at = t,
                          ![a].error = "Agent timed out"]
           ELSE R, H, a)

cancel(R, H, a, t) ==
    logged(IF HasRow(R, a)
           THEN [R EXCEPT ![a].state = "cancelled", ![a].completed_at = t]
           ELSE R, H, a)

get_task_agents(R, task_id) == {a \in AgentIds : HasRow(R, a) /\ R[a].task_id = task_id}

\* DELETE FROM agent_registry WHERE state IN (terminal) AND completed_at IS
\* NOT NULL AND completed_at < cutoff
cleanup_completed(R, older_than, t) ==
    [a \in AllIds |->
        IF /\ R[a].state \in Terminal
           /\ R[a].completed_at # -1
           /\ R[a].completed_at < t - older_than
        THEN NoRow ELSE R[a]]

\* ------------------------------------------------------------- executor

\* Prompts are told apart by their length only.
PromptLens == {0, 1, MAX_PROMPT_LENGTH, MAX_PROMPT_LENGTH + 1}

\* _validate_prompt: TRUE when the prompt is accepted.
validate_prompt(len) == len > 0 /\ ~(len > MAX_PROMPT_LENGTH)

SpawnFiles == {<<>>, <<"f">>, <<"./f", "g">>}
AgentConfigs == [files_to_lock : SpawnFiles, lock_type : LockTypes, prompt : PromptLens]

\* The part spawn_cli_agent and spawn_cli_agent_async share: register, take
\* the locks, validate the prompt, mark the agent started. `how` tells where
\* it ended: "lock_failed" (returns), "invalid_prompt" (raises ValueError) or
\* "started".
spawn_prologue(R, H, L, config, task_id, a, t) ==
    LET R1 == register(R, a, task_id)
        b == IF config.files_to_lock # <<>>
             THEN acquire_batch(L, config.files_to_lock, a, config.lock_type, t)
             ELSE [ok |-> TRUE, failed |-> <<>>, locks |-> L]
    IN  IF ~b.ok
        THEN LET f == fail(R1, H, a, "Could not acquire locks", t)
             IN  [how |-> "lock_failed", reg |-> f.reg, hist |-> f.hist, locks |-> b.locks]
        ELSE IF ~validate_prompt(config.prompt)
        THEN [how |-> "invalid_prompt", reg |-> R1, hist |-> H, locks |-> b.locks]
        ELSE [how |-> "started", reg |-> start(R1, a), hist |-> H, locks |-> b.locks]

\* The try/except/finally around subprocess.run: the registry transition the
\* run's outcome selects, then the release of the agent's locks.
RunOutcomes == {"exit0", "nonzero", "TimeoutExpired", "Exception"}

SpawnEpilogueTimeoutFails(R, H, L, a, outcome, t) ==
    LET r == CASE outcome = "exit0" -> complete(R, H, a, t)
               [] outcome = "nonzero" -> fail(R, H, a, "Non-zero exit code", t)
               [] OTHER -> fail(R, H, a, "exception", t)
    IN  [reg |-> r.reg, hist |-> r.hist, locks |-> release_agent(L, a)]

spawn_epilogue(R, H, L, a, outcome, t) ==
    LET r == CASE outcome = "exit0" -> complete(R, H, a, t)
               [] outcome = "nonzero" -> fail(R, H, a, "Non-zero exit code", t)
               [] outcome = "TimeoutExpired" -> timeout(R, H, a, t)
               [] OTHER -> fail(R, H, a, "exception", t)
    IN  [reg |-> r.reg, hist |-> r.hist, locks |-> release_agent(L, a)]

\* cancel_agent: kill the tracked subprocess, cancel in the registry, release
\* the agent's locks.
cancel_agent(R, H, L, P, A, a, t) ==
    LET c == cancel(R, H, a, t)
    IN  [reg |-> c.reg, hist |-> c.hist, locks |-> release_agent(L, a),
         proc |-> IF a \in A /\ P[a] = "running" THEN [P EXCEPT ![a] = "killed"] ELSE P,
         active |-> A \ {a}]

\* cancel_task: cancel_agent for every pending or running agent of the task.
RECURSIVE cancel_each(_, _, _, _, _, _, _)
cancel_each(R, H, L, P, A, todo, t) ==
    IF todo = {} THEN [reg |-> R, hist |-> H, locks |-> L, proc |-> P, active |-> A]
    ELSE LET a == CHOOSE x \in todo : TRUE
             c == cancel_agent(R, H, L, P, A, a, t)
         IN  cancel_each(c.reg, c.hist, c.locks, c.proc, c.active, todo \ {a}, t)

CancelTaskEveryAgent(R, H, L, P, A, task_id, t) ==
    cancel_each(R, H, L, P, A, get_task_agents(R, task_id), t)

cancel_task(R, H, L, P, A, task_id, t) ==
    cancel_each(R, H, L, P, A,
                {a \in get_task_agents(R, task_id) : R[a].state \in {"pending", "running"}}, t)

\* wait_for_agents, one pass of its polling loop over the requested ids: the
\* results after the pass.
WaitPassRunningIsDone(R, ids, results) ==
    [a \in AllIds |->
        IF a \notin ids \/ results[a] # "none" THEN results[a]
        ELSE IF ~HasRow(R, a) THEN "Agent not found"
        ELSE IF R[a].state = "completed" THEN "success" ELSE "failure"]

wait_pass(R, ids, results) ==
    [a \in AllIds |->
        IF a \notin ids \/ results[a] # "none" THEN results[a]
        ELSE IF ~HasRow(R, a) THEN "Agent not found"
        ELSE IF R[a].state \in Terminal
             THEN (IF R[a].state = "completed" THEN "success" ELSE "failure")
        ELSE "none"]

\* "Mark remaining as timed out"
RECURSIVE timeout_each(_, _, _, _)
timeout_each(R, H, todo, t) ==
    IF todo = {} THEN [reg |-> R, hist |-> H]
    ELSE LET a == CHOOSE x \in todo : TRUE
             r == timeout(R, H, a, t)
         IN  timeout_each(r.reg, r.hist, todo \ {a}, t)

NoWait == [active |-> FALSE, ids |-> {}, start |-> 0, timeout |-> 0,
           results |-> [a \in AllIds |-> "none"]]

\* ------------------------------------------------------ executor actions

\* The ids register() has handed out so far.
IssuedIds == 1..(nextId - 1)

\* spawn_cli_agent up to the blocking subprocess.run
SpawnCall(config, task_id) ==
    /\ nextId <= MaxAgents
    /\ LET a == nextId
           s == spawn_prologue(reg, hist, locks, config, task_id, a, now)
       IN  /\ reg' = s.reg /\ hist' = s.hist /\ locks' = s.locks
           /\ nextId' = nextId + 1
           /\ call' = [call EXCEPT ![a] = CASE s.how = "lock_failed" -> "returned"
                                            [] s.how = "invalid_prompt" -> "raised"
                                            [] OTHER -> "in_run"]
           /\ proc' = IF s.how = "started" THEN [proc EXCEPT ![a] = "running"] ELSE proc
    /\ lastOp' = NoOp
    /\ UNCHANGED <<now, active, wf, sideVars>>

\* subprocess.run comes back (or raises); the agent is marked and its locks
\* are released; spawn_cli_agent returns
SpawnReturn(a, outcome) ==
    /\ call[a] = "in_run"
    /\ LET e == spawn_epilogue(reg, hist, locks, a, outcome, now)
       IN  reg' = e.reg /\ hist' = e.hist /\ locks' = e.locks
    /\ call' = [call EXCEPT ![a] = "returned"]
    /\ proc' = [proc EXCEPT ![a] = "exited"]
    /\ lastOp' = NoOp
    /\ UNCHANGED <<now, nextId, active, wf, sideVars>>

\* spawn_cli_agent called directly, beside any orchestrator
SpawnBegin(config, task_id) == SpawnCall(config, task_id) /\ UNCHANGED orch

SpawnEnd(a, outcome) ==
    /\ \A i \in 1..Len(orch.agent) : orch.agent[i] # a
    /\ SpawnReturn(a, outcome)
    /\ UNCHANGED orch

\* spawn_cli_agent_async: the whole call
SpawnAsync(config, task_id) ==
    /\ nextId <= MaxAgents
    /\ LET a == nextId
           s == spawn_prologue(reg, hist, locks, config, task_id, a, now)
       IN  /\ reg' = IF s.how = "started" THEN heartbeat(s.reg, a, 10) ELSE s.reg
           /\ hist' = s.hist /\ locks' = s.locks
           /\ nextId' = nextId + 1
           /\ call' = [call EXCEPT ![a] = IF s.how = "invalid_prompt" THEN "raised"
                                           ELSE "returned"]
           /\ proc' = IF s.how = "started" THEN [proc EXCEPT ![a] = "running"] ELSE proc
           /\ active' = IF s.how = "started" THEN active \cup {a} ELSE active
    /\ lastOp' = NoOp
    /\ UNCHANGED <<now, wf, orch, sideVars>>

\* A background subprocess ends on its own.
ProcExit(a) ==
    /\ a \in active /\ proc[a] = "running"
    /\ proc' = [proc EXCEPT ![a] = "exited"]
    /\ lastOp' = NoOp
    /\ UNCHANGED <<locks, now, reg, hist, nextId, call, active, wf, orch, sideVars>>

CancelAgent(a) ==
    /\ LET c == cancel_agent(reg, hist, locks, proc, active, a, now)
       IN  /\ reg' = c.reg /\ hist' = c.hist /\ locks' = c.locks
           /\ proc' = c.proc /\ active' = c.active
    /\ lastOp' = NoOp
    /\ UNCHANGED <<now, nextId, call, wf, orch, sideVars>>

CancelTask(task_id) ==
    /\ LET c == cancel_task(reg, hist, locks, proc, active, task_id, now)
       IN  /\ reg' = c.reg /\ hist' = c.hist /\ locks' = c.locks
           /\ proc' = c.proc /\ active' = c.active
    /\ lastOp' = [NoOp EXCEPT !.op = "cancel_task", !.task = task_id]
    /\ UNCHANGED <<now, nextId, call, wf, orch, sideVars>>

CleanupCompleted(older_than) ==
    /\ reg' = cleanup_completed(reg, older_than, now)
    /\ lastOp' = NoOp
    /\ UNCHANGED <<locks, now, hist, nextId, call, proc, active, wf, orch, sideVars>>

\* wait_for_agents is called
WaitBegin(ids, tmo) ==
    /\ ~wf.active
    /\ ids \subseteq IssuedIds \cup {UnknownId}
    /\ wf' = [active |-> TRUE, ids |-> ids, start |-> now, timeout |-> tmo,
              results |-> [a \in AllIds |-> "none"]]
    /\ lastOp' = NoOp
    /\ UNCHANGED <<locks, now, reg, hist, nextId, call, proc, active, orch, sideVars>>

\* one pass of the loop: collect, return when all done, force the rest to
\* timeout and return when the wait expired, else sleep
WaitPoll ==
    /\ wf.active
    /\ LET res == wait_pass(reg, wf.ids, wf.results)
           rest == {a \in wf.ids : res[a] = "none"}
       IN  IF rest = {}
           THEN /\ wf' = [wf EXCEPT !.active = FALSE, !.results = res]
                /\ UNCHANGED <<reg, hist>>
           ELSE IF now - wf.start > wf.timeout
           THEN LET r == timeout_each(reg, hist, rest, now)
                IN  /\ reg' = r.reg /\ hist' = r.hist
                    /\ wf' = [wf EXCEPT !.active = FALSE,
                                 !.results = [a \in AllIds |->
                                     IF a \in rest THEN "Wait timeout exceeded" ELSE res[a]]]
           ELSE /\ wf' = [wf EXCEPT !.results = res]
                /\ UNCHANGED <<reg, hist>>
    /\ lastOp' = NoOp
    /\ UNCHANGED <<locks, now, nextId, call, proc, active, orch, sideVars>>


\* --------------------------------------------------------- orchestrator

\* A task text is told apart by the keyword families decompose_task looks for
\* and by its length.
TaskLens == {0, 9, MAX_PROMPT_LENGTH + 1}
Tasks == {t \in [research : BOOLEAN, implement : BOOLEAN, test : BOOLEAN, len : TaskLens] :
             (t.research \/ t.implement \/ t.test) => t.len > 0}

Strategies == {"full", "implement", "review-build", "research", "team", "other"}

\* A subtask dict: the length of its text (prefix + task), its lock type and
\* its priority; the decompositions give no "files" key.
Subtask(prefix_len, task, lock_type, priority) ==
    [prompt |-> prefix_len + task.len, lock_type |-> lock_type, priority |-> priority,
     files |-> <<>>]

\* decompose_task: the subtasks in list order.
decompose_task(task) ==
    LET found == (IF task.research THEN <<Subtask(22, task, "read", 0)>> ELSE <<>>)
                 \o (IF task.implement THEN <<Subtask(11, task, "write", 1)>> ELSE <<>>)
                 \o (IF task.test THEN <<Subtask(17, task, "read", 2)>> ELSE <<>>)
        review == Subtask(20, task, "read", 3)
    IN  IF found = <<>>
        THEN <<Subtask(0, task, "read", 0), review>>
        ELSE found \o <<review>>

\* MultiAgentOrchestrator._decompose_task: fixed shapes for research,
\* implement and review-build, decompose_task(task) for the rest.
orchestrator_decompose_task(task, strategy) ==
    CASE strategy = "research" ->
            <<Subtask(26, task, "read", 0), Subtask(27, task, "read", 0),
              Subtask(26, task, "read", 0)>>
      [] strategy = "implement" -> <<Subtask(11, task, "write", 0)>>
      [] strategy = "review-build" ->
            <<Subtask(7, task, "write", 0), Subtask(27, task, "read", 0)>>
      [] OTHER -> decompose_task(task)

\* assign: one assignment per subtask, then a stable sort by priority.
RECURSIVE insert_by_priority(_, _)
insert_by_priority(sorted, x) ==
    IF sorted = <<>> THEN <<x>>
    ELSE IF x.priority < Head(sorted).priority THEN <<x>> \o sorted
    ELSE <<Head(sorted)>> \o insert_by_priority(Tail(sorted), x)

RECURSIVE assign_from(_, _)
assign_from(sorted, subtasks) ==
    IF subtasks = <<>> THEN sorted
    ELSE assign_from(insert_by_priority(sorted, Head(subtasks)), Tail(subtasks))

assign(subtasks) == assign_from(<<>>, subtasks)

\* _assignment_to_config: the prompt is the subtask text.
assignment_to_config(assignment) ==
    [files_to_lock |-> assignment.files, lock_type |-> assignment.lock_type,
     prompt |-> assignment.prompt]

\* detect_potential_conflicts: the pairs (min, max) of subtasks that use one
\* resolved path at two places of the usage list, one of them writing.
conflicting_pairs(subtasks) ==
    {pr \in (1..Len(subtasks)) \X (1..Len(subtasks)) :
        /\ pr[1] <= pr[2]
        /\ \E k1 \in DOMAIN subtasks[pr[1]].files, k2 \in DOMAIN subtasks[pr[2]].files :
              /\ normalize_path(subtasks[pr[1]].files[k1])
                    = normalize_path(subtasks[pr[2]].files[k2])
              /\ (pr[1] # pr[2] \/ k1 # k2)
        /\ (subtasks[pr[1]].lock_type = "write" \/ subtasks[pr[2]].lock_type = "write")}

\* the greedy grouping: a group takes every later, unassigned subtask that
\* conflicts with none of its members
RECURSIVE ExtendGroupIgnoringConflicts(_, _, _, _, _)
ExtendGroupIgnoringConflicts(group, other, n, assigned, pairs) ==
    IF other > n THEN group
    ELSE IF other \in assigned
         THEN ExtendGroupIgnoringConflicts(group, other + 1, n, assigned, pairs)
         ELSE ExtendGroupIgnoringConflicts(group \cup {other}, other + 1, n,
                                           assigned \cup {other}, pairs)

RECURSIVE extend_group(_, _, _, _, _)
extend_group(group, other, n, assigned, pairs) ==
    IF other > n THEN group
    ELSE IF other \in assigned \/ \E member \in group : <<member, other>> \in pairs
         THEN extend_group(group, other + 1, n, assigned, pairs)
         ELSE extend_group(group \cup {other}, other + 1, n, assigned \cup {other}, pairs)

RECURSIVE build_groups(_, _, _, _)
build_groups(idx, n, assigned, pairs) ==
    IF idx > n THEN <<>>
    ELSE IF idx \in assigned THEN build_groups(idx + 1, n, assigned, pairs)
    ELSE LET group == extend_group({idx}, idx + 1, n, assigned \cup {idx}, pairs)
         IN  <<group>> \o build_groups(idx + 1, n, assigned \cup group, pairs)

DetectAnyGroupParallel(subtasks) ==
    LET pairs == conflicting_pairs(subtasks)
        groups == build_groups(1, Len(subtasks), {}, pairs)
    IN  [has_conflicts |-> pairs # {},
         can_parallelize |-> Len(groups) > 0,
         parallel_groups |-> groups]

detect_potential_conflicts(subtasks) ==
    LET pairs == conflicting_pairs(subtasks)
        groups == build_groups(1, Len(subtasks), {}, pairs)
    IN  [has_conflicts |-> pairs # {},
         can_parallelize |-> \E g \in 1..Len(groups) : Cardinality(groups[g]) > 1,
         parallel_groups |-> groups]

can_parallelize(asg) == detect_potential_conflicts(asg).can_parallelize

DEFAULT_MAX_WORKERS == 5

\* _execute_strategy and _execute_phased: how the assignments of a phase are
\* run. The phase "run" is the single phase of the unphased strategies; a
\* strategy the code does not know ("other") falls back to the sequential loop.
execute_strategy(strategy, phase, asg, conflicts) ==
    IF \/ (strategy = "implement" \/ phase = "implementation") /\ ~conflicts.can_parallelize
       \/ strategy = "other"
    THEN [mode |-> "sequential", workers |-> 1]
    ELSE [mode |-> "parallel",
          workers |-> IF strategy = "team" THEN Len(asg) ELSE DEFAULT_MAX_WORKERS]

\* the assignments of a phase, by index
phase_members(asg, phase) ==
    CASE phase = "research" -> {i \in 1..Len(asg) : asg[i].lock_type = "read"}
      [] phase = "implementation" -> {i \in 1..Len(asg) : asg[i].lock_type = "write"}
      [] OTHER -> 1..Len(asg)

\* _execute_phased skips a phase that has no assignments
first_phase(strategy, asg) ==
    IF strategy # "full" THEN "run"
    ELSE IF phase_members(asg, "research") # {} THEN "research"
    ELSE IF phase_members(asg, "implementation") # {} THEN "implementation"
    ELSE "done"

next_phase(phase, asg) ==
    IF phase = "research" /\ phase_members(asg, "implementation") # {}
    THEN "implementation" ELSE "done"

\* _synthesize_results over the collected results
synthesize_results(total, successful) ==
    IF successful = total THEN "success"
    ELSE IF successful > 0 THEN "partial"
    ELSE "failed"

NoConflicts == [has_conflicts |-> FALSE, can_parallelize |-> FALSE, parallel_groups |-> <<>>]

Idle == [phase |-> "idle", strategy |-> "none", asg |-> <<>>, conflicts |-> NoConflicts,
         mode |-> "none", workers |-> 0, slot |-> <<>>, agent |-> <<>>,
         ids |-> <<>>, succ |-> {}, status |-> "none"]

\* the state of a call that is about to run the given phase
enter_phase(o, phase) ==
    LET e == execute_strategy(o.strategy, phase, o.asg, o.conflicts)
    IN  [o EXCEPT !.phase = phase,
                  !.mode = IF phase = "done" THEN o.mode ELSE e.mode,
                  !.workers = IF phase = "done" THEN o.workers ELSE e.workers,
                  !.status = IF phase = "done"
                             THEN synthesize_results(Len(o.ids), Cardinality(o.succ))
                             ELSE o.status]

\* coordinate(task, strategy): decompose, assign, analyse conflicts, begin
\* the strategy's first phase
Coordinate(task, strategy) ==
    /\ orch.phase = "idle"
    /\ LET asg == assign(orchestrator_decompose_task(task, strategy))
       IN  /\ Len(asg) <= MaxAgents
           /\ orch' = enter_phase(
                        [Idle EXCEPT !.strategy = strategy, !.asg = asg,
                                     !.conflicts = detect_potential_conflicts(asg),
                                     !.slot = [i \in 1..Len(asg) |-> "todo"],
                                     !.agent = [i \in 1..Len(asg) |-> NoAgent]],
                        first_phase(strategy, asg))
    /\ UNCHANGED <<locks, now, lastOp, reg, hist, nextId, call, proc, active, wf, sideVars>>

\* The configs a direct spawn_parallel call is given.
PoolConfigs == [files_to_lock : {<<>>, <<"f">>}, lock_type : {"write"}, prompt : {0, 1}]

\* spawn_parallel(configs, task_id, max_workers) called directly: the pool
\* is entered with every config submitted
SpawnParallel(configs, max_workers) ==
    /\ orch.phase = "idle"
    /\ Len(configs) <= MaxAgents
    /\ orch' = [Idle EXCEPT !.phase = "run", !.mode = "parallel", !.workers = max_workers,
                            !.asg = [i \in 1..Len(configs) |->
                                        [prompt |-> configs[i].prompt,
                                         lock_type |-> configs[i].lock_type,
                                         priority |-> 0,
                                         files |-> configs[i].files_to_lock]],
                            !.slot = [i \in 1..Len(configs) |-> "todo"],
                            !.agent = [i \in 1..Len(configs) |-> NoAgent]]
    /\ UNCHANGED <<locks, now, lastOp, reg, hist, nextId, call, proc, active, wf, sideVars>>

Running(o) == {i \in 1..Len(o.asg) : o.slot[i] = "running"}

\* The pool hands out its work items in submission order, one to each idle
\* worker thread; the sequential loop is a pool of one.
PoolNeverFull(o, i) == TRUE

pool_can_take(o, i) ==
    Cardinality(Running(o))
      + Cardinality({j \in phase_members(o.asg, o.phase) : j < i /\ o.slot[j] = "todo"})
        < o.workers

\* a worker (or the sequential loop) takes assignment i and calls
\* spawn_cli_agent, up to the blocking subprocess.run. A call that comes back
\* at once yields its agent id; one that raises is swallowed by the pool and
\* ends the sequential loop, and coordinate with it.
PoolSpawn(i) ==
    /\ orch.phase \in {"run", "research", "implementation"}
    /\ i \in phase_members(orch.asg, orch.phase)
    /\ orch.slot[i] = "todo"
    /\ pool_can_take(orch, i)
    /\ SpawnCall(assignment_to_config(orch.asg[i]), "t1")
    /\ orch' = [orch EXCEPT
                  !.agent[i] = nextId,
                  !.slot[i] = IF call'[nextId] = "in_run" THEN "running" ELSE "done",
                  !.ids = IF call'[nextId] = "returned" THEN Append(@, nextId) ELSE @,
                  !.phase = IF call'[nextId] = "raised" /\ orch.mode = "sequential"
                            THEN "raised" ELSE @]

\* the worker's spawn_cli_agent comes back with its agent id; the sequential
\* loop reads the agent's result at once
PoolReturn(i, outcome) ==
    /\ orch.phase \in {"run", "research", "implementation"}
    /\ i \in 1..Len(orch.asg)
    /\ orch.slot[i] = "running"
    /\ SpawnReturn(orch.agent[i], outcome)
    /\ orch' = [orch EXCEPT
                  !.slot[i] = "done",
                  !.ids = Append(@, orch.agent[i]),
                  !.succ = IF orch.mode = "sequential" /\ reg'[orch.agent[i]].state = "completed"
                           THEN @ \cup {orch.agent[i]} ELSE @]

\* every future of the phase is done: the pool is left, _collect_results
\* reads the returned agents, and the next phase begins or the results are
\* synthesized
PhaseDone ==
    /\ orch.phase \in {"run", "research", "implementation"}
    /\ \A i \in phase_members(orch.asg, orch.phase) : orch.slot[i] = "done"
    /\ LET collected ==
              IF orch.mode = "parallel"
              THEN {orch.agent[i] : i \in {j \in phase_members(orch.asg, orch.phase) :
                        /\ \E k \in 1..Len(orch.ids) : orch.ids[k] = orch.agent[j]
                        /\ reg[orch.agent[j]].state = "completed"}}
              ELSE {}
           o == [orch EXCEPT !.succ = @ \cup collected]
       IN  orch' = IF orch.strategy = "none"
                   THEN [o EXCEPT !.phase = "done"]
                   ELSE enter_phase(o, next_phase(orch.phase, orch.asg))
    /\ UNCHANGED <<locks, now, lastOp, reg, hist, nextId, call, proc, active, wf, sideVars>>

\* --------------------------------------------------------- trust ledger

coreVars == <<locks, now, lastOp, reg, hist, nextId, call, proc, active, wf, orch>>

\* The record_outcome calls made on the one key.
MaxLedgerCalls == 3
LedgerCalls == 1..MaxLedgerCalls

\* No row for the key; get_trust_score then answers 0.5 (in thousandths).
NoEntry == [present |-> FALSE, success_count |-> 0, failure_count |-> 0, trust_score |-> 500]

NoLedger == [entry |-> NoEntry,
             calls |-> [c \in LedgerCalls |-> [pc |-> "idle", success |-> FALSE, row |-> NoEntry]]]

\* alpha / (alpha + beta), in thousandths
trust_score(success_count, failure_count) ==
    ((success_count + 1) * 1000) \div (success_count + failure_count + 2)

\* the row record_outcome writes, from the row its SELECT returned
updated_entry(row, success) ==
    LET sc == IF success THEN row.success_count + 1 ELSE row.success_count
        fc == IF success THEN row.failure_count ELSE row.failure_count + 1
    IN  [present |-> TRUE, success_count |-> sc, failure_count |-> fc,
         trust_score |-> trust_score(sc, fc)]

\* record_outcome up to its first await: SELECT the key's row
RecordSelect(c, success) ==
    /\ ledger.calls[c].pc = "idle"
    /\ ledger' = [ledger EXCEPT !.calls[c] = [pc |-> "selected", success |-> success,
                                              row |-> ledger.entry]]
    /\ UNCHANGED <<coreVars, trans, acq, opt, fn>>

\* the rest of record_outcome: compute the counts from the selected row,
\* INSERT ... ON CONFLICT DO UPDATE, commit
RecordUpsert(c) ==
    /\ ledger.calls[c].pc = "selected"
    /\ ledger' = [ledger EXCEPT
                    !.entry = updated_entry(ledger.calls[c].row, ledger.calls[c].success),
                    !.calls[c].pc = "done"]
    /\ UNCHANGED <<coreVars, trans, acq, opt, fn>>

\* ------------------------------------------------------------- optimizer

\* Optimizer processes working on the one baselines file and database.
MaxOptProcs == 2
OptProcs == 1..MaxOptProcs
\* Rows the baselines table may hold before apply is no longer called.
MaxVersions == 2

ParamKeys == <<"quality_threshold", "complexity_threshold", "efficiency_threshold">>

\* the baselines _load_baselines answers when there is no file, in thousandths
DefaultBaselines ==
    [k \in {ParamKeys[i] : i \in DOMAIN ParamKeys} |->
        CASE k = "quality_threshold" -> 3000
          [] k = "complexity_threshold" -> 500
          [] OTHER -> 700]

Proposal(parameter, proposed_value) ==
    [parameter |-> parameter, proposed_value |-> proposed_value]

ProposalLists ==
    { <<>>,
      <<Proposal("quality_threshold", 3500)>>,
      <<Proposal("complexity_threshold", 600)>>,
      <<Proposal("quality_threshold", 2500), Proposal("quality_threshold", 3000)>> }

\* json.dumps of a parameter map: the text lists the keys and their values
RECURSIVE json_dumps_from(_, _)
json_dumps_from(baselines, i) ==
    IF i > Len(ParamKeys) THEN <<>>
    ELSE (IF ParamKeys[i] \in DOMAIN baselines
          THEN << <<ParamKeys[i], baselines[ParamKeys[i]]>> >> ELSE <<>>)
         \o json_dumps_from(baselines, i + 1)

json_dumps(baselines) == json_dumps_from(baselines, 1)

\* json.loads of such a text: the map from each key to the value listed last
json_loads(text) ==
    [k \in {text[i][1] : i \in DOMAIN text} |->
        text[CHOOSE i \in DOMAIN text :
                /\ text[i][1] = k
                /\ \A j \in DOMAIN text : text[j][1] = k => j <= i][2]]

NoFile == [state |-> "missing", text |-> <<>>]
\* open(file, "w"): the file exists and is empty
TruncatedFile == [state |-> "truncated", text |-> <<>>]
WrittenFile(baselines) == [state |-> "written", text |-> json_dumps(baselines)]

\* _load_baselines; json.load raises on a file that holds no document
load_raises(file) == file.state = "truncated"
load_baselines(file) ==
    IF file.state = "missing" THEN DefaultBaselines ELSE json_loads(file.text)

\* the loop of apply over the proposals
RECURSIVE apply_proposals(_, _, _)
apply_proposals(baselines, proposals, i) ==
    IF i > Len(proposals) THEN baselines
    ELSE LET p == proposals[i]
         IN  apply_proposals(
                [k \in DOMAIN baselines \cup {p.parameter} |->
                    IF k = p.parameter THEN p.proposed_value ELSE baselines[k]],
                proposals, i + 1)

FirstVersion == <<1, 0, 0>>

\* _next_version: "1.0.0" with an empty table, else the latest version with
\* its last part incremented
next_version(rows) ==
    IF rows = <<>> THEN FirstVersion
    ELSE LET current == rows[Len(rows)].version
         IN  [current EXCEPT ![Len(current)] = @ + 1]

\* INSERT INTO baselines: id is AUTOINCREMENT, version is not unique
insert_baseline(rows, version, baselines) ==
    Append(rows, [id |-> Len(rows) + 1, version |-> version,
                  parameters |-> json_dumps(baselines)])

\* rows[1] of SELECT parameters ... ORDER BY id DESC LIMIT 2
RollbackLatest(rows) == rows[Len(rows)]
rollback_row(rows) == rows[Len(rows) - 1]

NoOptCall == [pc |-> "idle", op |-> "none", result |-> "none", baselines |-> DefaultBaselines,
              version |-> FirstVersion, file0 |-> NoFile, rows0 |-> 0]

NoOptimizer == [file |-> NoFile, rows |-> <<>>, read |-> "none",
                procs |-> [p \in OptProcs |-> NoOptCall]]

\* apply with no proposals returns False
ApplyNothing(p) ==
    /\ opt.procs[p].pc = "idle"
    /\ ~(opt.procs[p].op = "apply" /\ opt.procs[p].result = "false")
    /\ opt' = [opt EXCEPT !.procs[p] = [NoOptCall EXCEPT !.op = "apply", !.result = "false"]]
    /\ UNCHANGED <<coreVars, trans, acq, ledger, fn>>

\* apply up to the save: load the baselines, apply the proposals
ApplyLoad(p, proposals) ==
    /\ opt.procs[p].pc = "idle"
    /\ proposals # <<>>
    /\ Len(opt.rows) < MaxVersions
    /\ opt' = [opt EXCEPT !.procs[p] =
                  IF load_raises(opt.file)
                  THEN [NoOptCall EXCEPT !.op = "apply", !.result = "raised",
                                         !.file0 = opt.file, !.rows0 = Len(opt.rows)]
                  ELSE [NoOptCall EXCEPT !.pc = "open", !.op = "apply",
                           !.baselines = apply_proposals(load_baselines(opt.file), proposals, 1),
                           !.file0 = opt.file, !.rows0 = Len(opt.rows)]]
    /\ UNCHANGED <<coreVars, trans, acq, ledger, fn>>

\* _save_baselines: open(file, "w") ...
SaveOpen(p) ==
    /\ opt.procs[p].pc = "open"
    /\ opt' = [opt EXCEPT !.file = TruncatedFile, !.procs[p].pc = "dump"]
    /\ UNCHANGED <<coreVars, trans, acq, ledger, fn>>

\* ... json.dump and close. A rollback returns True here.
SaveDump(p) ==
    /\ opt.procs[p].pc = "dump"
    /\ opt' = [opt EXCEPT !.file = WrittenFile(opt.procs[p].baselines),
                          !.procs[p].pc = IF opt.procs[p].op = "apply" THEN "version" ELSE "idle",
                          !.procs[p].result = IF opt.procs[p].op = "apply" THEN "none" ELSE "true"]
    /\ UNCHANGED <<coreVars, trans, acq, ledger, fn>>

\* the argument self._next_version() of the insert
ApplyNextVersion(p) ==
    /\ opt.procs[p].pc = "version"
    /\ opt' = [opt EXCEPT !.procs[p].version = next_version(opt.rows),
                          !.procs[p].pc = "insert"]
    /\ UNCHANGED <<coreVars, trans, acq, ledger, fn>>

\* execute_insert; apply returns True
ApplyInsert(p) ==
    /\ opt.procs[p].pc = "insert"
    /\ opt' = [opt EXCEPT !.rows = insert_baseline(opt.rows, opt.procs[p].version,
                                                   opt.procs[p].baselines),
                          !.procs[p].pc = "idle",
                          !.procs[p].result = "true"]
    /\ UNCHANGED <<coreVars, trans, acq, ledger, fn>>

\* rollback up to the save: False with fewer than two rows
RollbackSelect(p) ==
    /\ opt.procs[p].pc = "idle"
    /\ ~(opt.procs[p].op = "rollback" /\ opt.procs[p].result = "false")
    /\ opt' = [opt EXCEPT !.procs[p] =
                  IF Len(opt.rows) < 2
                  THEN [NoOptCall EXCEPT !.op = "rollback", !.result = "false"]
                  ELSE [NoOptCall EXCEPT !.pc = "open", !.op = "rollback",
                           !.baselines = json_loads(rollback_row(opt.rows).parameters)]]
    /\ UNCHANGED <<coreVars, trans, acq, ledger, fn>>

\* the process is interrupted in the middle of apply or rollback
Interrupt(p) ==
    /\ opt.procs[p].pc # "idle"
    /\ opt' = [opt EXCEPT !.procs[p].pc = "idle", !.procs[p].result = "interrupted"]
    /\ UNCHANGED <<coreVars, trans, acq, ledger, fn>>

\* another process calls _load_baselines
ReadBaselines ==
    /\ LET seen == IF load_raises(opt.file) THEN "invalid"
                   ELSE IF opt.file.state = "missing" THEN "defaults" ELSE "document"
       IN  /\ opt.read # seen
           /\ opt' = [opt EXCEPT !.read = seen]
    /\ UNCHANGED <<coreVars, trans, acq, ledger, fn>>

OptStep(p) ==
    \/ ApplyNothing(p)
    \/ \E proposals \in ProposalLists : ApplyLoad(p, proposals)
    \/ SaveOpen(p)
    \/ SaveDump(p)
    \/ ApplyNextVersion(p)
    \/ ApplyInsert(p)
    \/ RollbackSelect(p)
    \/ Interrupt(p)

\* ------------------------------------------------------------ decomposer

\* verifiability in hundredths
MIN_VERIFIABILITY == 30
MAX_DEPTH == 4
\* SubTask.profile is None
NoProfile == 0 - 1
\* SubTasks a decomposer callable returns from one call.
MaxChildren == 2
\* SubTasks handed to _analyze_dependencies, to detect_potential_conflicts.
MaxSubtasks == 3

Verifiabilities == {NoProfile, 10, MIN_VERIFIABILITY, 70}

\* A task text, as the keywords of the heuristic it contains.
TaskTexts == {{}, {"build"}, {"write"}, {"implement", "explore"}}

\* the subtask ids: the uuid stands for the place the SubTask was made at
subtask_id(parent_id, idx) == Append(parent_id, idx)
\* the literal ids "subtask-0", "subtask-1", ... that no uuid id equals
literal_id(idx) == <<0, idx>>

SubTask(id, words, method, parallel_safe, parent_id, deps, verif, depth, forced, heuristic) ==
    [id |-> id, words |-> words, verification_method |-> method,
     parallel_safe |-> parallel_safe, parent_task_id |-> parent_id,
     dependencies |-> deps, verifiability |-> verif, depth |-> depth,
     forced_verifiable |-> forced, heuristic |-> heuristic]

Template(method, parallel, deps) == [method |-> method, parallel |-> parallel, deps |-> deps]

heuristic_templates(task) ==
    IF task \cap {"build", "create", "develop", "implement system"} # {}
    THEN << Template("human_review", FALSE, {}),
            Template("automated_test", FALSE, {literal_id(0)}),
            Template("automated_test", FALSE, {literal_id(1)}),
            Template("ground_truth", FALSE, {literal_id(2)}) >>
    ELSE IF task \cap {"research", "investigate", "explore", "analyze"} # {}
    THEN << Template("human_review", TRUE, {}),
            Template("semantic_similarity", FALSE, {literal_id(0)}),
            Template("human_review", FALSE, {literal_id(1)}) >>
    ELSE IF task \cap {"implement", "code", "write"} # {}
    THEN << Template("human_review", FALSE, {}),
            Template("automated_test", FALSE, {literal_id(0)}),
            Template("automated_test", FALSE, {literal_id(1)}) >>
    ELSE << Template("human_review", FALSE, {}),
            Template("automated_test", FALSE, {literal_id(0)}),
            Template("ground_truth", FALSE, {literal_id(1)}) >>

\* _heuristic_decompose: the descriptions keep the start of the task text
heuristic_decompose(task, parent_id, depth) ==
    LET templates == heuristic_templates(task)
    IN  [idx \in DOMAIN templates |->
            SubTask(subtask_id(parent_id, idx), task, templates[idx].method,
                    templates[idx].parallel, parent_id, templates[idx].deps,
                    70, depth, FALSE, TRUE)]

\* A decomposer callable: the children it returns from every call (their
\* dependencies name siblings), the keywords of their descriptions, and the
\* depth from which on it raises.
NoCallable == [children |-> <<>>, words |-> {}, raises_from |-> 0 - 1]

ChildSpecs == [verifiability : Verifiabilities, parallel_safe : BOOLEAN,
               deps : SUBSET (1..MaxChildren)]
ChildLists == UNION {[1..n -> ChildSpecs] : n \in 0..MaxChildren}

Callables ==
    {NoCallable}
    \cup {[children |-> <<>>, words |-> {}, raises_from |-> 0]}
    \cup {[children |-> c, words |-> {}, raises_from |-> MAX_DEPTH] : c \in ChildLists}
    \cup {[children |-> c, words |-> w, raises_from |-> 2] :
             c \in ChildLists, w \in {{"build"}, {"analyze"}}}

llm_decompose_fn(callable, parent_id, depth) ==
    [idx \in DOMAIN callable.children |->
        LET c == callable.children[idx]
        IN  SubTask(subtask_id(parent_id, idx), callable.words, "automated_test",
                    c.parallel_safe, parent_id,
                    {subtask_id(parent_id, d) : d \in c.deps},
                    c.verifiability, depth, FALSE, FALSE)]

\* the single SubTask _recursive_decompose returns at the depth bound
ForcedKeepsVerifiability(task, verif, parent_id, depth) ==
    << SubTask(subtask_id(parent_id, 1), task, "human_review", TRUE, parent_id, {},
               verif, depth, TRUE, FALSE) >>

forced_subtask(task, verif, parent_id, depth) ==
    << SubTask(subtask_id(parent_id, 1), task, "human_review", TRUE, parent_id, {},
               MIN_VERIFIABILITY, depth, TRUE, FALSE) >>

RECURSIVE recursive_decompose(_, _, _, _, _)
RECURSIVE verified_subtasks(_, _, _, _)

\* the loop of _recursive_decompose over the subtasks of one level
verified_subtasks(subtasks, k, depth, callable) ==
    IF k > Len(subtasks) THEN <<>>
    ELSE LET st == subtasks[k]
         IN  (IF st.verifiability # NoProfile /\ st.verifiability < MIN_VERIFIABILITY
              THEN recursive_decompose(st.words, st.verifiability, st.id, depth + 1, callable)
              ELSE <<st>>)
             \o verified_subtasks(subtasks, k + 1, depth, callable)

recursive_decompose(task, verif, parent_id, depth, callable) ==
    IF depth >= MAX_DEPTH THEN forced_subtask(task, verif, parent_id, depth)
    ELSE LET subtasks ==
                IF callable # NoCallable /\ depth < callable.raises_from
                THEN llm_decompose_fn(callable, parent_id, depth)
                ELSE heuristic_decompose(task, parent_id, depth)
         IN  verified_subtasks(subtasks, 1, depth, callable)

\* id_to_task.get(dep_id, <a SubTask that is not parallel_safe>).parallel_safe
dep_parallel_safe(subtasks, dep_id) ==
    LET at == {j \in DOMAIN subtasks : subtasks[j].id = dep_id}
    IN  IF at = {} THEN FALSE
        ELSE subtasks[CHOOSE j \in at : \A i \in at : i <= j].parallel_safe

\* one pass of the while loop of _analyze_dependencies, from subtask k on
RECURSIVE analysis_pass(_, _)
analysis_pass(subtasks, k) ==
    IF k > Len(subtasks) THEN subtasks
    ELSE LET st == subtasks[k]
         IN  IF /\ st.parallel_safe
                /\ st.dependencies # {}
                /\ \E dep_id \in st.dependencies : ~dep_parallel_safe(subtasks, dep_id)
             THEN analysis_pass([subtasks EXCEPT ![k].parallel_safe = FALSE], k + 1)
             ELSE analysis_pass(subtasks, k + 1)

AnalyzeSinglePass(subtasks) == analysis_pass(subtasks, 1)

RECURSIVE analyze_dependencies(_)
analyze_dependencies(subtasks) ==
    LET after == analysis_pass(subtasks, 1)
    IN  IF after = subtasks THEN subtasks ELSE analyze_dependencies(after)

delegation_decompose_task(task, verif, callable) ==
    analyze_dependencies(recursive_decompose(task, verif, <<>>, 0, callable))

\* ---------------------------------------------------------- function calls

NoCall == [op |-> "none", input |-> <<>>, output |-> <<>>]

DecomposeInputs == [task : TaskTexts, verifiability : {10, 70}, callable : Callables]

\* decompose_task(task, profile, llm_decompose_fn = callable)
DecomposeTask ==
    /\ fn = NoCall
    /\ \E input \in DecomposeInputs :
          fn' = [op |-> "decompose_task", input |-> input,
                 output |-> delegation_decompose_task(input.task, input.verifiability,
                                                      input.callable)]
    /\ UNCHANGED <<coreVars, trans, acq, ledger, opt>>

\* The lists _recursive_decompose hands to _analyze_dependencies when the
\* callable returns that many verifiable children.
AnalysisSubtasks ==
    [parallel_safe : BOOLEAN,
     dependencies : SUBSET {subtask_id(<<>>, i) : i \in 1..MaxSubtasks}]
AnalysisInputs ==
    UNION {[1..n -> AnalysisSubtasks] : n \in 1..MaxSubtasks}

AnalyzeDependencies ==
    /\ fn = NoCall
    /\ \E input \in AnalysisInputs :
          LET subtasks == [k \in DOMAIN input |->
                              SubTask(subtask_id(<<>>, k), {}, "automated_test",
                                      input[k].parallel_safe, <<>>, input[k].dependencies,
                                      70, 0, FALSE, FALSE)]
          IN  fn' = [op |-> "analyze_dependencies", input |-> subtasks,
                     output |-> analyze_dependencies(subtasks)]
    /\ UNCHANGED <<coreVars, trans, acq, ledger, opt>>

PlannedSubtasks == [files : FileLists, lock_type : LockTypes]
PlannedInputs == UNION {[1..n -> PlannedSubtasks] : n \in 0..MaxSubtasks}

DetectPotentialConflicts ==
    /\ fn = NoCall
    /\ \E input \in PlannedInputs :
          fn' = [op |-> "detect_potential_conflicts", input |-> input,
                 output |-> detect_potential_conflicts(input)]
    /\ UNCHANGED <<coreVars, trans, acq, ledger, opt>>

\* ------------------------------------------------------ topology selector

\* Nodes of a task graph.
MaxNodes == 3
\* complexity above which a node asks for a supervisor, in hundredths
HIGH_COMPLEXITY == 90

EdgeLists(n) == UNION {[1..m -> (1..n) \X (1..n)] : m \in 0..(n - 1)}

\* TaskGraph: the nodes 1..n, the list of (from, to) edges, the complexity
\* of each node or none
TaskGraphs ==
    UNION {[nodes : {n}, edges : EdgeLists(n),
            complexities : {<<>>} \cup [1..n -> {50, 95}]] : n \in 1..MaxNodes}

in_degree(graph, node) ==
    Cardinality({k \in DOMAIN graph.edges : graph.edges[k][2] = node})
out_degree(graph, node) ==
    Cardinality({k \in DOMAIN graph.edges : graph.edges[k][1] = node})

is_linear_chain(graph) ==
    /\ graph.edges # <<>>
    /\ Len(graph.edges) = graph.nodes - 1
    /\ \A node \in 1..graph.nodes :
          ~(in_degree(graph, node) > 1 \/ out_degree(graph, node) > 1)

has_high_complexity_node(graph) ==
    /\ graph.complexities # <<>>
    /\ \E node \in DOMAIN graph.complexities : graph.complexities[node] > HIGH_COMPLEXITY

\* the nodes of a sequence that satisfy a test, in order
RECURSIVE select_from(_, _, _)
select_from(n, k, keep) ==
    IF k > n THEN <<>>
    ELSE (IF k \in keep THEN <<k>> ELSE <<>>) \o select_from(n, k + 1, keep)

\* the edges leaving the nodes of the queue, in the order the loops of
\* _topological_sort visit them
RECURSIVE edges_of_queue(_, _, _)
edges_of_queue(graph, queue, i) ==
    IF i > Len(queue) THEN <<>>
    ELSE select_from(Len(graph.edges), 1,
                     {k \in DOMAIN graph.edges : graph.edges[k][1] = queue[i]})
         \o edges_of_queue(graph, queue, i + 1)

\* in_degree[child] -= 1; a child that reaches 0 joins the next queue
RECURSIVE next_queue(_, _, _, _)
next_queue(graph, todo, i, degrees) ==
    IF i > Len(todo) THEN [queue |-> <<>>, degrees |-> degrees]
    ELSE LET child == graph.edges[todo[i]][2]
             after == [degrees EXCEPT ![child] = @ - 1]
             rest == next_queue(graph, todo, i + 1, after)
         IN  [queue |-> (IF after[child] = 0 THEN <<child>> ELSE <<>>) \o rest.queue,
              degrees |-> rest.degrees]

RECURSIVE sort_levels(_, _, _)
sort_levels(graph, queue, degrees) ==
    IF queue = <<>> THEN <<>>
    ELSE LET nxt == next_queue(graph, edges_of_queue(graph, queue, 1), 1, degrees)
         IN  <<[parallel |-> Len(queue) # 1, nodes |-> queue]>>
             \o sort_levels(graph, nxt.queue, nxt.degrees)

topological_sort(graph) ==
    LET degrees == [node \in 1..graph.nodes |-> in_degree(graph, node)]
    IN  sort_levels(graph,
                    select_from(graph.nodes, 1, {node \in 1..graph.nodes : degrees[node] = 0}),
                    degrees)

\* the agents of the hybrid topology: one more agent for every node of a
\* parallel group, agent_count % max(1, agent_count) for a single node
RECURSIVE hybrid_agents(_, _, _, _)
hybrid_agents(order, i, agent_count, assigned) ==
    IF i > Len(order) THEN assigned
    ELSE IF order[i].parallel
         THEN hybrid_agents(order, i + 1, agent_count + Len(order[i].nodes),
                 assigned \cup {<<order[i].nodes[k], agent_count + k - 1>> :
                                   k \in DOMAIN order[i].nodes})
         ELSE hybrid_agents(order, i + 1, agent_count,
                 assigned \cup {<<order[i].nodes[1],
                                  agent_count % (IF agent_count > 1 THEN agent_count ELSE 1)>>})

\* TopologySelector.select; agent_assignments as (node, agent number) pairs
select_topology(graph) ==
    IF graph.edges = <<>>
    THEN [topology |-> "parallel", supervisor |-> FALSE,
          agent_assignments |-> {<<node, node - 1>> : node \in 1..graph.nodes},
          execution_order |-> <<[parallel |-> TRUE,
                                 nodes |-> select_from(graph.nodes, 1, 1..graph.nodes)]>>]
    ELSE IF has_high_complexity_node(graph)
    THEN [topology |-> "hierarchical", supervisor |-> TRUE,
          agent_assignments |-> {<<node, node - 1>> : node \in 1..graph.nodes},
          execution_order |-> topological_sort(graph)]
    ELSE IF is_linear_chain(graph)
    THEN [topology |-> "sequential", supervisor |-> FALSE,
          agent_assignments |-> {<<node, 0>> : node \in 1..graph.nodes},
          execution_order |-> topological_sort(graph)]
    ELSE [topology |-> "hybrid", supervisor |-> FALSE,
          agent_assignments |-> hybrid_agents(topological_sort(graph), 1, 0, {}),
          execution_order |-> topological_sort(graph)]

SelectTopology ==
    /\ fn = NoCall
    /\ \E graph \in TaskGraphs :
          fn' = [op |-> "select", input |-> graph, output |-> select_topology(graph)]
    /\ UNCHANGED <<coreVars, trans, acq, ledger, opt>>

\* ------------------------------------------------------ entropy allocator

\* Tasks handed to one allocate call.
MaxTasks == 3

\* complexity, failure rate and variance in tenths
TaskInfos == [complexity : {0, 5, 10}, historical_failure_rate : {0, 10}, dq_variance : {0, 10}]
TaskLists == UNION {[1..n -> TaskInfos] : n \in 0..MaxTasks}
\* budgets and costs in tenths of a unit
Budgets == {0, 119, 120, 240, 1500, 1620, 12000, 12120, 13500, 24000}

\* MODEL_COSTS, in tenths
model_cost(model) ==
    CASE model = "haiku" -> 1
      [] model = "sonnet" -> 5
      [] model = "opus" -> 20

\* _calculate_entropy, in hundredths
calculate_entropy(task) ==
    4 * task.complexity + 3 * task.historical_failure_rate + 3 * task.dq_variance

Resources(model, timeout_seconds, agent_count) ==
    [model |-> model, timeout_seconds |-> timeout_seconds, agent_count |-> agent_count]

allocate_resources(entropy) ==
    IF entropy > 70 THEN Resources("opus", 600, 2)
    ELSE IF entropy > 30 THEN Resources("sonnet", 300, 1)
    ELSE Resources("haiku", 120, 1)

calculate_cost(model, timeout_seconds) == model_cost(model) * timeout_seconds

\* tasks_with_entropy.sort(key = entropy, reverse = True): a stable sort of
\* the task indices
RECURSIVE insert_by_entropy(_, _, _)
insert_by_entropy(sorted, tasks, i) ==
    IF sorted = <<>> THEN <<i>>
    ELSE IF calculate_entropy(tasks[i]) > calculate_entropy(tasks[Head(sorted)])
         THEN <<i>> \o sorted
         ELSE <<Head(sorted)>> \o insert_by_entropy(Tail(sorted), tasks, i)

RECURSIVE sort_by_entropy(_, _)
sort_by_entropy(tasks, n) ==
    IF n = 0 THEN <<>> ELSE insert_by_entropy(sort_by_entropy(tasks, n - 1), tasks, n)

NoResources == Resources("none", 0, 0)

\* what a task gets at the given total cost: its own resources, else the
\* cheaper ones that fit, else nothing
ChooseWithoutDowngrade(wanted, total_cost, budget) ==
    IF total_cost + calculate_cost(wanted.model, wanted.timeout_seconds) <= budget
    THEN wanted ELSE NoResources

choose_resources(wanted, total_cost, budget) ==
    IF total_cost + calculate_cost(wanted.model, wanted.timeout_seconds) <= budget
    THEN wanted
    ELSE IF wanted.model = "opus" /\ total_cost + calculate_cost("sonnet", 300) <= budget
    THEN Resources("sonnet", 300, 1)
    ELSE IF wanted.model \in {"opus", "sonnet"}
            /\ total_cost + calculate_cost("haiku", 120) <= budget
    THEN Resources("haiku", 120, 1)
    ELSE NoResources

\* the loop of allocate: it ends at the first task that gets nothing
RECURSIVE allocate_from(_, _, _, _, _)
allocate_from(tasks, order, k, total_cost, budget) ==
    IF k > Len(order) THEN <<>>
    ELSE LET got == choose_resources(allocate_resources(calculate_entropy(tasks[order[k]])),
                                     total_cost, budget)
         IN  IF got = NoResources THEN <<>>
             ELSE <<[task_id |-> order[k], model |-> got.model,
                     timeout_seconds |-> got.timeout_seconds,
                     agent_count |-> got.agent_count]>>
                  \o allocate_from(tasks, order, k + 1,
                        total_cost + calculate_cost(got.model, got.timeout_seconds), budget)

allocate(tasks, budget) ==
    allocate_from(tasks, sort_by_entropy(tasks, Len(tasks)), 1, 0, budget)

Allocate ==
    /\ fn = NoCall
    /\ \E tasks \in TaskLists, budget \in Budgets :
          fn' = [op |-> "allocate", input |-> [tasks |-> tasks, budget |-> budget],
                 output |-> allocate(tasks, budget)]
    /\ UNCHANGED <<coreVars, trans, acq, ledger, opt>>

\* ----------------------------------------------------------------- router

\* complexity below which a subtask is executed directly, in hundredths
MIN_COMPLEXITY_FOR_DELEGATION == 20
\* the reserved agent id; the agents of a call are numbered from 1
DIRECT_EXECUTION == 0
\* Agents offered to one route_subtask call.
MaxRouteAgents == 2

Stopwords ==
    {"the", "and", "for", "from", "with", "this", "that", "are", "was", "will", "can", "has",
     "have", "been", "get", "set", "list", "find", "search", "load", "create"}

\* _extract_keywords: the words of four letters or more that are no stopwords
extract_keywords(words) == {w \in words : Len(w) >= 4 /\ w \notin Stopwords}

\* subtasks to route: profile complexity in hundredths or no profile, the
\* words of the description, estimated cost in tenths
RouteSubtasks ==
    [complexity : {NoProfile, 10, MIN_COMPLEXITY_FOR_DELEGATION, 30},
     words : {{}, {"find", "papers"}, {"simple", "lookup", "for", "papers"}},
     estimated_cost : {1, 5}]

\* AgentCapability with the trust score known for it (in tenths, 5 if none)
RouteAgents == [keywords : {{}, {"papers"}, {"lookup", "files"}},
                estimated_cost : {1, 5}, trust_score : {5, 9}]
RouteAgentLists == UNION {[1..n -> RouteAgents] : n \in 0..MaxRouteAgents}

Larger(a, b) == IF a >= b THEN a ELSE b

\* _calculate_capability_match, in sixtieths
calculate_capability_match(subtask, agent) ==
    LET subtask_keywords == extract_keywords(subtask.words)
    IN  IF subtask_keywords = {} \/ agent.keywords = {} THEN 0
        ELSE (60 * Cardinality(subtask_keywords \cap agent.keywords))
                \div Larger(Cardinality(subtask_keywords), Cardinality(agent.keywords))

\* capability_match * 0.6 + trust_score * 0.3 + cost_efficiency * 0.1, times 100
final_score(subtask, agent) ==
    LET cost_diff == IF subtask.estimated_cost >= agent.estimated_cost
                     THEN subtask.estimated_cost - agent.estimated_cost
                     ELSE agent.estimated_cost - subtask.estimated_cost
        cost_efficiency == IF subtask.complexity # NoProfile THEN 10 - cost_diff ELSE 5
    IN  calculate_capability_match(subtask, agent) + 3 * agent.trust_score + cost_efficiency

Assignment(agent_id, trust, match, bypassed, no_agents) ==
    [agent_id |-> agent_id, trust_score |-> trust, capability_match |-> match,
     delegation_bypassed |-> bypassed, no_agents_available |-> no_agents]

\* the floor test of route_subtask
delegation_bypassed(subtask) ==
    subtask.complexity # NoProfile /\ subtask.complexity < MIN_COMPLEXITY_FOR_DELEGATION

\* route_subtask: the best agent is the first of those with the top score
route_subtask(subtask, available_agents) ==
    IF delegation_bypassed(subtask) THEN Assignment(DIRECT_EXECUTION, 10, 60, TRUE, FALSE)
    ELSE IF available_agents = <<>> THEN Assignment(DIRECT_EXECUTION, 5, 0, FALSE, TRUE)
    ELSE LET best == CHOOSE i \in DOMAIN available_agents :
                        \A j \in DOMAIN available_agents :
                           \/ final_score(subtask, available_agents[j])
                                 < final_score(subtask, available_agents[i])
                           \/ /\ final_score(subtask, available_agents[j])
                                    = final_score(subtask, available_agents[i])
                              /\ i <= j
         IN  Assignment(best, available_agents[best].trust_score,
                        calculate_capability_match(subtask, available_agents[best]),
                        FALSE, FALSE)

RouteSubtask ==
    /\ fn = NoCall
    /\ \E subtask \in RouteSubtasks, available_agents \in RouteAgentLists :
          fn' = [op |-> "route_subtask",
                 input |-> [subtask |-> subtask, available_agents |-> available_agents],
                 output |-> route_subtask(subtask, available_agents)]
    /\ UNCHANGED <<coreVars, trans, acq, ledger, opt>>

\* ------------------------------------------- acquire calls that overlap

NoAcquire == [pc |-> "idle", path |-> "f", lock_type |-> "read"]

\* acquire up to the end of check_conflicts: sweep, SELECT the rows of the
\* path; False on a conflict
AcquireCheck(a, p, lt) ==
    LET swept == cleanup_expired(locks, now)
        refused == check_conflicts(swept, <<p>>, lt, a) # <<>>
    IN  /\ acq[a].pc = "idle"
        /\ locks' = swept
        /\ acq' = IF refused THEN acq
                  ELSE [acq EXCEPT ![a] = [pc |-> "checked", path |-> p, lock_type |-> lt]]
        /\ lastOp' = IF refused
                     THEN [op |-> "acquire", agent |-> a, files |-> <<p>>, lock_type |-> lt,
                           ok |-> FALSE, failed |-> <<p>>, task |-> "none"]
                     ELSE NoOp
        /\ UNCHANGED <<now, execVars, ledger, opt, fn, trans>>

\* the rest of acquire: sweep, DELETE the agent's row of the path, INSERT
AcquireInsert(a) ==
    /\ acq[a].pc = "checked"
    /\ locks' = release(cleanup_expired(locks, now), acq[a].path, a)
                   \cup {FileLock(normalize_path(acq[a].path), a, acq[a].lock_type, now)}
    /\ acq' = [acq EXCEPT ![a] = NoAcquire]
    /\ lastOp' = [op |-> "acquire", agent |-> a, files |-> <<acq[a].path>>,
                  lock_type |-> acq[a].lock_type, ok |-> TRUE, failed |-> <<>>,
                  task |-> "none"]
    /\ UNCHANGED <<now, execVars, ledger, opt, fn, trans>>

\* ---------------------------------------- registry transitions that overlap

\* Threads that call complete, fail, timeout or cancel on the registry.
MaxThreads == 2
Threads == 1..MaxThreads

\* the transitions of the spawning thread and of wait_for_agents
TransitionOps == {"complete", "fail", "timeout"}

NoTransition == [pc |-> "idle", op |-> "none", agent_id |-> NoAgent, agent |-> NoRow]

\* the UPDATE agent_registry of a transition
transition_update(R, H, op, a, t) ==
    CASE op = "complete" -> complete(R, H, a, t).reg
      [] op = "fail" -> fail(R, H, a, "error", t).reg
      [] op = "timeout" -> timeout(R, H, a, t).reg

\* register(): a pending row under a fresh agent id
RegisterAgent ==
    /\ nextId <= MaxAgents
    /\ reg' = register(reg, nextId, "t1")
    /\ nextId' = nextId + 1
    /\ UNCHANGED <<locks, now, lastOp, hist, call, proc, active, wf, orch, sideVars>>

\* the UPDATE of a transition, committed when its connection is left
TransitionUpdate(t, op, a) ==
    /\ trans[t].pc = "idle"
    /\ reg' = transition_update(reg, hist, op, a, now)
    /\ trans' = [trans EXCEPT ![t] = [NoTransition EXCEPT !.pc = "updated", !.op = op,
                                                          !.agent_id = a]]
    /\ UNCHANGED <<locks, now, lastOp, hist, nextId, call, proc, active, wf, orch,
                   ledger, opt, fn, acq>>

\* agent = self.get(agent_id); with no row the transition returns
TransitionGet(t) ==
    /\ trans[t].pc = "updated"
    /\ trans' = [trans EXCEPT ![t] =
                    IF HasRow(reg, trans[t].agent_id)
                    THEN [trans[t] EXCEPT !.pc = "read", !.agent = reg[trans[t].agent_id]]
                    ELSE NoTransition]
    /\ UNCHANGED <<coreVars, ledger, opt, fn, acq>>

\* self._log_outcome(agent), with the record the get returned
TransitionLog(t) ==
    /\ trans[t].pc = "read"
    /\ hist' = log_outcome(hist, trans[t].agent_id, trans[t].agent)
    /\ trans' = [trans EXCEPT ![t] = NoTransition]
    /\ UNCHANGED <<locks, now, lastOp, reg, nextId, call, proc, active, wf, orch,
                   ledger, opt, fn, acq>>

Init ==
    /\ locks = {}
    /\ now = 0
    /\ lastOp = NoOp
    /\ reg = [a \in AllIds |-> NoRow]
    /\ hist = [a \in AllIds |-> NoOutcome]
    /\ nextId = 1
    /\ call = [a \in AgentIds |-> "none"]
    /\ proc = [a \in AgentIds |-> "none"]
    /\ active = {}
    /\ wf = NoWait
    /\ orch = Idle
    /\ ledger = NoLedger
    /\ opt = NoOptimizer
    /\ fn = NoCall
    /\ acq = [a \in AgentIds |-> NoAcquire]
    /\ trans = [t \in Threads |-> NoTransition]

Next ==
    \/ \E config \in AgentConfigs, task_id \in TaskIds : SpawnBegin(config, task_id)
    \/ \E a \in AgentIds, outcome \in RunOutcomes : SpawnEnd(a, outcome)
    \/ \E config \in AgentConfigs, task_id \in TaskIds : SpawnAsync(config, task_id)
    \/ \E a \in AgentIds : ProcExit(a)
    \/ \E a \in AgentIds : CancelAgent(a)
    \/ \E task_id \in TaskIds : CancelTask(task_id)
    \/ \E older_than \in {0, STALE_CLEANUP} : CleanupCompleted(older_than)
    \/ Tick(LOCK_TIMEOUT + 1)

Spec == Init /\ [][Next]_vars

\* The executor with a wait_for_agents caller beside the spawns, the waits
\* called with the default timeout.
WaitConfigs == [files_to_lock : {<<>>, <<"./f", "g">>}, lock_type : LockTypes,
                prompt : {0, 1}]

WaitNext ==
    \/ \E config \in WaitConfigs : SpawnBegin(config, "t1")
    \/ \E a \in AgentIds, outcome \in RunOutcomes : SpawnEnd(a, outcome)
    \/ \E config \in WaitConfigs : SpawnAsync(config, "t1")
    \/ \E a \in AgentIds : ProcExit(a)
    \/ \E a \in AgentIds : CancelAgent(a)
    \/ \E older_than \in {0, STALE_CLEANUP} : CleanupCompleted(older_than)
    \/ \E ids \in (SUBSET AllIds) \ {{}} : WaitBegin(ids, WAIT_TIMEOUT)
    \/ WaitPoll
    \/ Tick(LOCK_TIMEOUT + 1)

SpecWait == Init /\ [][WaitNext]_vars

MaxPoolWorkers == 2

PoolInputs == UNION {[1..n -> PoolConfigs] : n \in 1..MaxAgents}

FullNext ==
    \/ \E task \in Tasks, strategy \in Strategies : Coordinate(task, strategy)
    \/ \E configs \in PoolInputs, max_workers \in 1..MaxPoolWorkers :
          SpawnParallel(configs, max_workers)
    \/ \E i \in 1..MaxAgents : PoolSpawn(i)
    \/ \E i \in 1..MaxAgents, outcome \in RunOutcomes : PoolReturn(i, outcome)
    \/ PhaseDone

SpecFull == Init /\ [][FullNext]_vars

LedgerNext ==
    \/ \E c \in LedgerCalls, success \in BOOLEAN : RecordSelect(c, success)
    \/ \E c \in LedgerCalls : RecordUpsert(c)

SpecLedger == Init /\ [][LedgerNext]_vars

\* one optimizer process and a reader
OptSeqNext ==
    \/ OptStep(1)
    \/ ReadBaselines

SpecOptSeq == Init /\ [][OptSeqNext]_vars

\* overlapping optimizer processes
OptNext ==
    \/ \E p \in OptProcs : OptStep(p)
    \/ ReadBaselines

SpecOpt == Init /\ [][OptNext]_vars

\* one call, on any of the inputs
FnNext ==
    \/ DecomposeTask
    \/ AnalyzeDependencies
    \/ DetectPotentialConflicts
    \/ SelectTopology
    \/ Allocate
    \/ RouteSubtask

SpecFn == Init /\ [][FnNext]_vars

\* acquire calls of several threads or processes, statement by statement
OverlapNext ==
    \/ \E a \in AgentIds, p \in RawPaths, lt \in LockTypes : AcquireCheck(a, p, lt)
    \/ \E a \in AgentIds : AcquireInsert(a)
    \/ \E a \in AgentIds, p \in RawPaths : acq[a].pc = "idle" /\ Release(a, p)

SpecOverlap == Init /\ [][OverlapNext]_vars

\* transitions of several threads on the registry, statement by statement
TransitionNext ==
    \/ RegisterAgent
    \/ \E t \in Threads, op \in TransitionOps, a \in AgentIds : TransitionUpdate(t, op, a)
    \/ \E t \in Threads : TransitionGet(t)
    \/ \E t \in Threads : TransitionLog(t)

SpecTransitions == Init /\ [][TransitionNext]_vars

\* The executor where every subprocess.run returns and every background
\* subprocess exits in the end.
SpecLive ==
    /\ Spec
    /\ WF_vars(\E a \in AgentIds, outcome \in RunOutcomes : SpawnEnd(a, outcome))
    /\ WF_vars(\E a \in AgentIds : ProcExit(a))

LockNext ==
    \/ \E a \in AgentIds, p \in RawPaths, lt \in LockTypes : Acquire(a, p, lt)
    \/ \E a \in AgentIds, files \in FileLists, lt \in LockTypes : AcquireBatch(a, files, lt)
    \/ \E a \in AgentIds, p \in RawPaths : Release(a, p)
    \/ \E a \in AgentIds : ReleaseAgent(a)
    \/ CleanupStale
    \/ \E d \in {LOCK_TIMEOUT, LOCK_TIMEOUT + 1} : Tick(d)

SpecLocks == Init /\ [][LockNext]_vars


\* ------------------------------------------------------------ lock claims

HoldsLock(L, a, path, lt) ==
    \E l \in L : l.agent_id = a /\ l.path = path /\ l.lock_type = lt

AgentLocks(L, a) == {l \in L : l.agent_id = a}

\* A lock-manager step that really was the call lastOp' records.
IsAcquireStep ==
    /\ lastOp'.op = "acquire"
    /\ Acquire(lastOp'.agent, lastOp'.files[1], lastOp'.lock_type)

IsBatchStep ==
    /\ lastOp'.op = "acquire_batch"
    /\ AcquireBatch(lastOp'.agent, lastOp'.files, lastOp'.lock_type)

\* C1: every two locks on one path held by different agents are both read
\* locks, in every reachable state of the lock table.
C1_LockExclusion ==
    \A l1 \in locks, l2 \in locks :
        (l1.path = l2.path /\ l1.agent_id # l2.agent_id)
            => (l1.lock_type = "read" /\ l2.lock_type = "read")

C1_Witness ==
    /\ \E l1 \in locks, l2 \in locks :
          l1.path = l2.path /\ l1.agent_id # l2.agent_id
    /\ lastOp.op = "acquire" /\ ~lastOp.ok /\ lastOp.lock_type = "write"

\* C6: acquire_batch is all-or-nothing: on success the agent holds a lock of
\* the requested type on every requested path; on failure every lock the agent
\* holds on a requested path is a row it already held before the call.
C6_BatchAllOrNothing ==
    [][IsBatchStep =>
        LET a == lastOp'.agent
            files == lastOp'.files
            lt == lastOp'.lock_type
        IN  IF lastOp'.ok
            THEN \A i \in 1..Len(files) :
                    HoldsLock(locks', a, normalize_path(files[i]), lt)
            ELSE \A i \in 1..Len(files) : \A l \in AgentLocks(locks', a) :
                    l.path = normalize_path(files[i]) => l \in locks
      ]_vars

C6_Witness ==
    /\ lastOp.op = "acquire_batch" /\ lastOp.ok
    /\ Len(lastOp.files) = 2
    /\ normalize_path(lastOp.files[1]) # normalize_path(lastOp.files[2])
    /\ Cardinality(AgentLocks(locks, lastOp.agent)) = 2
    /\ \E l \in locks : l.agent_id # lastOp.agent

\* C7: when acquire_batch fails, the agent holds no locks when the call
\* returns (whatever it held before is released by the rollback).
C7_FailedBatchReleasesAll ==
    [][(IsBatchStep /\ ~lastOp'.ok) => AgentLocks(locks', lastOp'.agent) = {}]_vars

\* C8: a request by agent a is refused exactly when another agent holds a
\* non-expired, incompatible lock on the same canonical path (any lock against
\* a write request, a write lock against a read request).
Incompatible(L, t, a, path, lt) ==
    \E l \in L :
        /\ l.acquired_at >= t - LOCK_TIMEOUT
        /\ l.path = normalize_path(path)
        /\ l.agent_id # a
        /\ (lt = "write" \/ l.lock_type = "write")

C8_RefusedIffIncompatible ==
    [][(IsAcquireStep \/ IsBatchStep) =>
        (~lastOp'.ok <=>
            \E i \in 1..Len(lastOp'.files) :
                Incompatible(locks, now, lastOp'.agent, lastOp'.files[i], lastOp'.lock_type))
      ]_vars

C8_Witness ==
    /\ lastOp.op = "acquire" /\ ~lastOp.ok
    /\ lastOp.lock_type = "read" /\ lastOp.files = <<"./f">>
    /\ \E l \in locks : l.path = "f" /\ l.agent_id # lastOp.agent /\ l.lock_type = "write"
    /\ \E l \in locks : l.path = "g" /\ l.agent_id = lastOp.agent


\* -------------------------------------------------- lifecycle claims

NonTerminal == {"pending", "running"}

\* C2: terminal states are absorbing: once an agent's state is completed,
\* failed, timeout or cancelled, no step changes it (the later deletion of the
\* row by cleanup_completed apart).
C2_TerminalAbsorbing ==
    [][\A a \in AgentIds :
        reg[a].state \in Terminal => reg'[a].state \in {reg[a].state, "absent"}]_vars

\* C3: every change of an agent's state is a listed transition, pending to
\* running or running to a terminal state (a spawn registers and starts in one
\* step; cleanup deletes terminal rows); no agent enters a terminal state from
\* any state but running.
C3_OnlyListedTransitions ==
    [][\A a \in AgentIds :
        reg'[a].state # reg[a].state =>
            \/ reg[a].state = "absent" /\ reg'[a].state \in {"pending", "running"}
            \/ reg[a].state = "pending" /\ reg'[a].state = "running"
            \/ reg[a].state = "running" /\ reg'[a].state \in Terminal
            \/ reg[a].state \in Terminal /\ reg'[a].state = "absent"]_vars

\* C4: whenever a spawn call ends, by returning or by raising, the agent it
\* registered holds no file locks.
SpawnEnded == {"returned", "raised"}

C4_SpawnReleasesLocks ==
    [][\A a \in AgentIds :
        (call[a] \notin SpawnEnded /\ call'[a] \in SpawnEnded)
            => AgentLocks(locks', a) = {}]_vars

\* C5: when a step has moved an agent into a terminal state (the timeout that
\* wait_for forces on expiry included), that agent holds no file locks.
C5_TerminalReleasesLocks ==
    [][\A a \in AgentIds :
        (reg[a].state \notin Terminal /\ reg'[a].state \in Terminal)
            => AgentLocks(locks', a) = {}]_vars

\* wait_for_agents returns in this step.
WaitReturns == wf.active /\ ~wf'.active
WaitExpired == now - wf.start > wf.timeout

\* C10 as stated: wait_for returns only when every requested agent is terminal
\* or the timeout has elapsed; it returns a result for every requested id; on
\* expiry every requested agent not yet terminal is moved to timeout and
\* reported unsuccessful.
C10_WaitForAsStated ==
    [][WaitReturns =>
        /\ (\A a \in wf.ids : reg'[a].state \in Terminal) \/ WaitExpired
        /\ \A a \in wf.ids : wf'.results[a] # "none"
        /\ \A a \in wf.ids :
              (wf'.results[a] = "Wait timeout exceeded" \/
               (WaitExpired /\ reg[a].state \in NonTerminal /\ wf.results[a] = "none"))
                 => (reg'[a].state = "timeout" /\ wf'.results[a] # "success")
      ]_vars

\* C10 amended: as stated, with "terminal" read as "terminal or not in the
\* registry": an id with no registry row is reported "Agent not found" at once
\* and is not waited for.
C10_WaitFor ==
    [][WaitReturns =>
        /\ (\A a \in wf.ids : reg'[a].state \in Terminal \cup {"absent"}) \/ WaitExpired
        /\ \A a \in wf.ids : wf'.results[a] # "none"
        /\ \A a \in wf.ids :
              (wf'.results[a] = "Wait timeout exceeded" \/
               (WaitExpired /\ reg[a].state \in NonTerminal /\ wf.results[a] = "none"))
                 => (reg'[a].state = "timeout" /\ wf'.results[a] # "success")
        /\ \A a \in wf.ids : ~HasRow(reg, a) /\ wf.results[a] = "none"
              => wf'.results[a] = "Agent not found"
      ]_vars

C10_Witness ==
    /\ ~wf.active /\ Cardinality(wf.ids) >= 2
    /\ \E a \in wf.ids : wf.results[a] = "Wait timeout exceeded" /\ reg[a].state = "timeout"
    /\ \E a \in wf.ids : wf.results[a] = "success"


\* ------------------------------------------------------ orchestrator claims

ReadAgents(o) == {i \in 1..Len(o.asg) : o.asg[i].lock_type = "read"}
WriteAgents(o) == {i \in 1..Len(o.asg) : o.asg[i].lock_type = "write"}

\* C9: in the full strategy no agent of the write phase is registered until
\* every agent of the read phase has reached a terminal state.
C9_PhasesStrictlyOrdered ==
    [][\A i \in WriteAgents(orch) :
        (orch.strategy = "full" /\ i \in DOMAIN orch'.agent /\ orch.agent[i] = NoAgent /\ orch'.agent[i] # NoAgent)
            => \A j \in ReadAgents(orch) :
                  /\ orch.agent[j] # NoAgent
                  /\ reg[orch.agent[j]].state \in Terminal]_vars


\* ------------------------------------------------------ cancellation claims

\* C11: after cancel(agent_id) returns, the agent's subprocess is no longer
\* running, its registry state is cancelled and it holds no file locks.
C11_CancelStopsAgent ==
    [][\A a \in AgentIds :
        (CancelAgent(a) /\ HasRow(reg, a))
            => /\ proc'[a] # "running"
               /\ reg'[a].state = "cancelled"
               /\ AgentLocks(locks', a) = {}]_vars

\* C12: cancelling an agent that is already cancelled leaves its registry
\* record, its outcome-history row and the lock table as they were.
C12_CancelIdempotent ==
    [][\A a \in AgentIds :
        (CancelAgent(a) /\ reg[a].state = "cancelled")
            => /\ reg'[a] = reg[a]
               /\ hist'[a] = hist[a]
               /\ locks' = locks]_vars

\* C13: cancel_task(task_id) cancels every pending or running agent of the
\* task and leaves the terminal agents of the task, and every agent of other
\* tasks, unchanged.
C13_CancelTaskFrame ==
    [][\A task_id \in TaskIds :
        CancelTask(task_id)
            => \A a \in AgentIds :
                  IF reg[a].task_id = task_id /\ reg[a].state \in NonTerminal
                  THEN reg'[a].state = "cancelled"
                  ELSE reg'[a] = reg[a] /\ hist'[a] = hist[a]]_vars

C13_Witness ==
    /\ lastOp.op = "cancel_task" /\ lastOp.task = "t1"
    /\ \E a \in AgentIds, b \in AgentIds :
          /\ reg[a].task_id = "t1" /\ reg[a].state = "cancelled" /\ reg[a].completed_at = now
          /\ reg[b].task_id = "t1" /\ reg[b].state = "completed" /\ reg[b].completed_at < now

\* C14: the agent's row in the outcome history is written once and never
\* changed afterwards.
C14_OutcomeWrittenOnce ==
    [][\A a \in AgentIds : hist[a] # NoOutcome => hist'[a] = hist[a]]_vars

\* C15: a spawn whose prompt is rejected leaves the agent registry and the
\* lock table exactly as they were before the call.
C15_ValidationDoesNotMutate ==
    [][\A a \in AgentIds :
        (call[a] # "raised" /\ call'[a] = "raised") => (reg' = reg /\ locks' = locks)]_vars

\* The terminal state the spec gives for each way the run ends.
ExpectedState(outcome) ==
    CASE outcome = "exit0" -> "completed"
      [] outcome = "TimeoutExpired" -> "timeout"
      [] OTHER -> "failed"

LockFailureAsSpecified ==
    \A config \in AgentConfigs, task_id \in TaskIds :
        (SpawnBegin(config, task_id) /\ call'[nextId] = "returned")
            => /\ reg'[nextId].state = "failed"
               /\ reg'[nextId].error = "Could not acquire locks"
               /\ proc'[nextId] = "none"

\* C16 as stated: when spawn returns normally the agent is in the terminal
\* state determined by its run.
C16_SpawnOutcomeAsStated ==
    [][/\ LockFailureAsSpecified
       /\ \A a \in AgentIds, outcome \in RunOutcomes :
             SpawnEnd(a, outcome) => reg'[a].state = ExpectedState(outcome)]_vars

\* C16: when spawn returns normally and the agent still has its registry
\* row, the agent is in the terminal state determined by its run: failed with
\* the lock error and no subprocess if its locks could not be acquired,
\* otherwise completed on exit code 0, failed on a non-zero code or an
\* exception, timeout when the run exceeded its timeout.
C16_SpawnOutcome ==
    [][/\ LockFailureAsSpecified
       /\ \A a \in AgentIds, outcome \in RunOutcomes :
             (SpawnEnd(a, outcome) /\ HasRow(reg', a))
                 => reg'[a].state = ExpectedState(outcome)]_vars

C16_Witness ==
    \E a \in AgentIds, b \in AgentIds :
        /\ call[a] = "returned" /\ reg[a].state = "timeout" /\ proc[a] = "exited"
        /\ call[b] = "returned" /\ reg[b].state = "failed"
        /\ reg[b].error = "Could not acquire locks" /\ proc[b] = "none"

\* ------------------------------------------------ spawn_parallel claims

InPool == orch.phase \in {"run", "research", "implementation"}

PoolAgents == {orch.agent[i] : i \in DOMAIN orch.agent} \ {NoAgent}

\* C17: spawn_parallel never has more than max_workers of its spawns (running
\* agents and their subprocesses) executing at the same time.
C17_PoolBounded ==
    (InPool /\ orch.mode = "parallel")
        => /\ Cardinality(Running(orch)) <= orch.workers
           /\ Cardinality({a \in PoolAgents : proc[a] = "running"}) <= orch.workers
           /\ Cardinality({a \in PoolAgents : call[a] = "in_run"}) <= orch.workers

C17_Witness ==
    /\ orch.strategy = "none" /\ orch.phase = "run"
    /\ Len(orch.asg) > orch.workers
    /\ Cardinality(Running(orch)) = orch.workers
    /\ \E i \in DOMAIN orch.slot : orch.slot[i] = "todo"

\* C18: every agent registered by a spawn_parallel call appears exactly once
\* in the list the call returns.
C18_ReturnsEveryAgent ==
    (orch.strategy = "none" /\ orch.phase = "done")
        => \A a \in PoolAgents :
              Cardinality({k \in 1..Len(orch.ids) : orch.ids[k] = a}) = 1

\* --------------------------------------------------- coordination claims

\* C19: under the implement strategy the assignments run in parallel if and
\* only if the conflict analysis found no conflicts, else sequentially.
C19_ImplementParallelIffNoConflicts ==
    (orch.strategy = "implement" /\ orch.phase # "idle")
        => (orch.mode = "parallel" <=> ~orch.conflicts.has_conflicts)

\* C20: the synthesized status is success if all agents of the coordination
\* succeeded, partial if some but not all did, failed if none did.
C20_SynthesizedStatus ==
    (orch.strategy # "none" /\ orch.phase = "done")
        => LET succeeded == {a \in PoolAgents : reg[a].state = "completed"}
           IN  orch.status = IF succeeded = PoolAgents THEN "success"
                             ELSE IF succeeded # {} THEN "partial"
                             ELSE "failed"

\* C21: no exception escapes coordinate: every call returns a result,
\* whatever happens while decomposing, locking, validating or running.
C21_NoExceptionEscapes == orch.phase # "raised"

\* ---------------------------------------------------- trust ledger claims

\* C22: once the record_outcome calls on the key have all finished, the
\* entry counts every one of them: success_count + failure_count is the
\* number of calls made.
C22_CountsEveryCall ==
    (\A c \in LedgerCalls : ledger.calls[c].pc # "selected")
        => ledger.entry.success_count + ledger.entry.failure_count
              = Cardinality({c \in LedgerCalls : ledger.calls[c].pc = "done"})

\* ------------------------------------------------------- optimizer claims

\* C23: apply writes the baseline atomically: a reader never sees a
\* partially written baselines file, and after an apply that was interrupted
\* or failed the file and the version history have both changed or neither.
C23_ApplyAtomic ==
    /\ opt.read # "invalid"
    /\ \A p \in OptProcs :
          (opt.procs[p].op = "apply" /\ opt.procs[p].result \in {"interrupted", "raised"})
              => (opt.file = opt.procs[p].file0 <=> Len(opt.rows) = opt.procs[p].rows0)

\* C24: every version record carries a version identifier different from
\* that of every other record, also when applies overlap.
C24_VersionsDiffer ==
    \A i, j \in DOMAIN opt.rows : i # j => opt.rows[i].version # opt.rows[j].version

\* C25: after a successful rollback the baselines file holds exactly the
\* parameter map of the version before the latest one.
C25_RollbackRestoresPrevious ==
    \A p \in OptProcs :
        (opt.procs[p].op = "rollback" /\ opt.procs[p].result = "true")
            => /\ opt.file.state = "written"
               /\ Len(opt.rows) >= 2
               /\ load_baselines(opt.file) = json_loads(opt.rows[Len(opt.rows) - 1].parameters)

C25_Witness ==
    /\ opt.procs[1].op = "rollback" /\ opt.procs[1].result = "true"
    /\ Len(opt.rows) >= 2
    /\ json_loads(opt.rows[Len(opt.rows)].parameters)
          # json_loads(opt.rows[Len(opt.rows) - 1].parameters)

\* ------------------------------------------------------ decomposer claims

\* C26: every SubTask decompose_task returns has a profile, and its
\* verifiability is at least 0.3.
C26_VerifiabilityFloor ==
    fn.op = "decompose_task"
        => \A k \in DOMAIN fn.output :
              /\ fn.output[k].verifiability # NoProfile
              /\ fn.output[k].verifiability >= MIN_VERIFIABILITY

\* C27: after the dependency analysis, every dependency of a parallel_safe
\* SubTask is parallel_safe.
C27_DependenciesParallelSafe ==
    fn.op \in {"decompose_task", "analyze_dependencies"}
        => \A t, d \in DOMAIN fn.output :
              (fn.output[t].parallel_safe /\ fn.output[d].id \in fn.output[t].dependencies)
                  => fn.output[d].parallel_safe

C27_Witness ==
    /\ fn.op = "analyze_dependencies"
    /\ \E k \in DOMAIN fn.output :
          /\ fn.input[k].parallel_safe
          /\ ~fn.output[k].parallel_safe
          /\ \A dep_id \in fn.input[k].dependencies : dep_parallel_safe(fn.input, dep_id)

PlannedConflict(subtasks, i, j) ==
    /\ \E k1 \in DOMAIN subtasks[i].files, k2 \in DOMAIN subtasks[j].files :
          normalize_path(subtasks[i].files[k1]) = normalize_path(subtasks[j].files[k2])
    /\ "write" \in {subtasks[i].lock_type, subtasks[j].lock_type}

\* C29: the parallel groups partition the subtasks, and no two members of a
\* group conflict.
C29_GroupsPartition ==
    fn.op = "detect_potential_conflicts"
        => LET groups == fn.output.parallel_groups
           IN  /\ \A i \in DOMAIN fn.input :
                     Cardinality({g \in DOMAIN groups : i \in groups[g]}) = 1
               /\ \A g \in DOMAIN groups :
                     /\ groups[g] \subseteq DOMAIN fn.input
                     /\ \A i, j \in groups[g] : i # j => ~PlannedConflict(fn.input, i, j)

C29_Witness ==
    /\ fn.op = "detect_potential_conflicts"
    /\ Len(fn.output.parallel_groups) >= 2
    /\ \E g \in DOMAIN fn.output.parallel_groups :
          Cardinality(fn.output.parallel_groups[g]) >= 2

\* C30: can_parallelize is true exactly when two different subtasks do not
\* conflict with each other.
C30_CanParallelizeIffPair ==
    fn.op = "detect_potential_conflicts"
        => (fn.output.can_parallelize
              <=> \E i, j \in DOMAIN fn.input : i # j /\ ~PlannedConflict(fn.input, i, j))

C30_Witness ==
    /\ fn.op = "detect_potential_conflicts"
    /\ fn.output.can_parallelize
    /\ fn.output.has_conflicts

\* C31: has_conflicts is true exactly when two different subtasks share a
\* canonical path and at least one of them requests write.
C31_HasConflictsIffPair ==
    fn.op = "detect_potential_conflicts"
        => (fn.output.has_conflicts
              <=> \E i, j \in DOMAIN fn.input : i # j /\ PlannedConflict(fn.input, i, j))

\* ------------------------------------------------------- topology claims

\* a directed path that visits every node once and uses every edge
LinearChain(graph) ==
    /\ Len(graph.edges) = graph.nodes - 1
    /\ \E path \in [1..graph.nodes -> 1..graph.nodes] :
          /\ \A a, b \in 1..graph.nodes : a # b => path[a] # path[b]
          /\ \A k \in 1..(graph.nodes - 1) :
                \E e \in DOMAIN graph.edges : graph.edges[e] = <<path[k], path[k + 1]>>

\* C32: select answers sequential only for a single linear chain: all n
\* nodes on one directed path of n - 1 edges.
C32_SequentialOnlyForChain ==
    (fn.op = "select" /\ fn.output.topology = "sequential") => LinearChain(fn.input)

\* ------------------------------------------------------ allocation claims

RECURSIVE AllocatedCost(_, _)
AllocatedCost(allocations, k) ==
    IF k > Len(allocations) THEN 0
    ELSE calculate_cost(allocations[k].model, allocations[k].timeout_seconds)
         + AllocatedCost(allocations, k + 1)

Unallocated ==
    {i \in DOMAIN fn.input.tasks : \A k \in DOMAIN fn.output : fn.output[k].task_id # i}

\* C33: a task is left without an allocation only if even a haiku
\* allocation would exceed the remaining budget; no task that still fits the
\* remaining budget is left out because an earlier one was.
C33_SkippedOnlyIfHaikuTooDear ==
    fn.op = "allocate"
        => \A i \in Unallocated :
              AllocatedCost(fn.output, 1) + calculate_cost("haiku", 120) > fn.input.budget

C33_Witness ==
    /\ fn.op = "allocate"
    /\ Unallocated # {}
    /\ \E k \in DOMAIN fn.output :
          fn.output[k].model
             # allocate_resources(calculate_entropy(fn.input.tasks[fn.output[k].task_id])).model

\* ----------------------------------------------------------- router claims

\* C34: a subtask whose profile complexity is exactly 0.2 has delegation
\* bypassed: it is assigned to DIRECT_EXECUTION.
C34_FloorBypassesDelegation ==
    (fn.op = "route_subtask" /\ fn.input.subtask.complexity = MIN_COMPLEXITY_FOR_DELEGATION)
        => fn.output.agent_id = DIRECT_EXECUTION

\* ------------------------------------------------- overlapping lock claims

\* C35: also when acquire calls of different agents overlap, no two agents
\* hold conflicting locks on one path: where an agent holds a write lock, no
\* other agent holds any lock.
C35_ExclusionUnderOverlap ==
    \A l \in locks :
        l.lock_type = "write" => \A other \in locks : other.path = l.path => other.agent_id = l.agent_id

\* ------------------------------------------------------ long-running agents

\* C36: while an agent runs with the locks it acquired at spawn, no step
\* grants another agent a conflicting lock on one of those files, however
\* long the agent runs.
C36_RunningAgentKeepsExclusion ==
    [][\A a \in AgentIds, b \in AgentIds :
        (a # b /\ call[a] = "in_run" /\ call'[a] = "in_run")
            => \A held \in AgentLocks(locks, a), granted \in AgentLocks(locks', b) \ locks :
                  ~(/\ held.path = granted.path
                    /\ "write" \in {held.lock_type, granted.lock_type})]_vars

\* C37: every registered agent eventually reaches a terminal state: once its
\* spawn call has ended and no subprocess of it is left running, it does not
\* stay pending or running forever.
C37_EventuallyTerminal ==
    \A a \in AgentIds :
        (reg[a].state \in NonTerminal /\ call[a] \in SpawnEnded /\ proc[a] # "running")
            ~> (reg[a].state \in Terminal)

\* C38: whatever the strategy, when coordinate has ended every assignment
\* has been run exactly once: each has its own registered agent, none was
\* skipped.
C38_EveryAssignmentRunOnce ==
    (orch.strategy # "none" /\ orch.phase \in {"done", "raised"})
        => /\ \A i \in DOMAIN orch.asg :
                 orch.slot[i] = "done" /\ reg[orch.agent[i]].state # "absent"
           /\ \A i, j \in DOMAIN orch.asg : i # j => orch.agent[i] # orch.agent[j]

\* ------------------------------------------------ apply and rollback claim

\* the baselines a rollback call that has done its SELECT leaves in the file:
\* the ones it is about to save, or the file as it is when it returned False
after_rollback(o, p) ==
    IF o.procs[p].pc = "open" THEN o.procs[p].baselines ELSE load_baselines(o.file)

\* C39: a rollback called right after a successful apply(P) leaves the
\* baselines that were current just before that apply.
C39_RollbackUndoesApply ==
    [][\A p \in OptProcs :
          (/\ opt.procs[p].pc = "idle"
           /\ opt.procs[p].op = "apply" /\ opt.procs[p].result = "true"
           /\ opt'.procs[p].op = "rollback")
              => after_rollback(opt', p) = load_baselines(opt.procs[p].file0)]_vars

\* ------------------------------------------- overlapping transition claim

\* the transitions in progress on an agent
InTransition(a) == {t \in Threads : trans[t].pc # "idle" /\ trans[t].agent_id = a}

\* C40: when no transition on an agent is in progress, the status of its
\* outcome-history row is the state of its registry row.
C40_HistoryMatchesRegistry ==
    \A a \in AgentIds :
        (InTransition(a) = {} /\ HasRow(reg, a) /\ hist[a].status # "none")
            => hist[a].status = reg[a].state

====
